---- MODULE Spec2Model ----
(***************************************************************************)
(* A model of usaddress-scourgify (scourgify/normalize.py, cleaning.py,    *)
(* validations.py, exceptions.py).                                         *)
(*                                                                         *)
(* A Python str is a sequence of characters; a character is a one-element  *)
(* TLA+ string ("A", "7", " ") or, for the few non-ASCII characters the    *)
(* cleaning code treats specially, a named token ("EN_DASH").  Python's    *)
(* None is the distinguished value None below, so that "absent" and the    *)
(* empty string '' stay different, as they are in the code.                *)
(***************************************************************************)
EXTENDS Integers, Sequences, FiniteSets, TLC

\* ------------------------------------------------------------------------
\* Characters and str primitives
\* ------------------------------------------------------------------------

None == <<"None">>

IsNone(s) == s = None

\* Python truthiness of an Optional[str]
Truthy(s) == s # None /\ s # <<>>

DigitSeq == <<"0", "1", "2", "3", "4", "5", "6", "7", "8", "9">>

UpperSeq ==
  <<"A", "B", "C", "D", "E", "F", "G", "H", "I", "J", "K", "L", "M",
    "N", "O", "P", "Q", "R", "S", "T", "U", "V", "W", "X", "Y", "Z">>

LowerSeq ==
  <<"a", "b", "c", "d", "e", "f", "g", "h", "i", "j", "k", "l", "m",
    "n", "o", "p", "q", "r", "s", "t", "u", "v", "w", "x", "y", "z">>

Range(f) == {f[i] : i \in DOMAIN f}

Digits == Range(DigitSeq)

UpperLetters == Range(UpperSeq)

LowerLetters == Range(LowerSeq)

IndexIn(seq, c) == CHOOSE i \in DOMAIN seq : seq[i] = c

DigitVal(c) == IndexIn(DigitSeq, c) - 1

\* unicodedata.category(char) for the characters of the model
Category(c) ==
  IF c \in Digits THEN "Nd"
  ELSE IF c \in UpperLetters THEN "Lu"
  ELSE IF c \in LowerLetters THEN "Ll"
  ELSE IF c = " " THEN "Zs"
  ELSE IF c = "TAB" THEN "Cc"
  ELSE IF c = "(" THEN "Ps"
  ELSE IF c = ")" THEN "Pe"
  ELSE IF c \in {"-", "EN_DASH"} THEN "Pd"
  ELSE IF c = "_" THEN "Pc"
  ELSE IF c \in {"+", "FRACTION_SLASH"} THEN "Sm"
  ELSE IF c = "VULGAR_HALF" THEN "No"
  ELSE "Po"

\* str.upper() on one character
UpperChar(c) == IF c \in LowerLetters THEN UpperSeq[IndexIn(LowerSeq, c)] ELSE c

Upper(s) == [i \in DOMAIN s |-> UpperChar(s[i])]

\* str.isspace() on one character (what str.split() splits on)
IsSpace(c) == c \in {" ", "TAB"}

IsAlnumChar(c) == c \in Digits \cup UpperLetters \cup LowerLetters

\* str.isalnum(): non-empty and every character alphanumeric
IsAlnum(s) == s # <<>> /\ \A i \in DOMAIN s : IsAlnumChar(s[i])

\* int(code) succeeds (on a cleaned string): non-empty and all digits
IsInt(s) == s # <<>> /\ \A i \in DOMAIN s : s[i] \in Digits

RECURSIVE Flatten(_)
Flatten(ss) == IF ss = <<>> THEN <<>> ELSE Head(ss) \o Flatten(Tail(ss))

RECURSIVE JoinWith(_, _)
JoinWith(sep, parts) ==
  IF parts = <<>> THEN <<>>
  ELSE IF Len(parts) = 1 THEN parts[1]
  ELSE parts[1] \o sep \o JoinWith(sep, Tail(parts))

\* str.split(): the maximal runs of non-whitespace characters
RECURSIVE SplitWs(_, _, _)
SplitWs(s, cur, acc) ==
  IF s = <<>> THEN (IF cur = <<>> THEN acc ELSE Append(acc, cur))
  ELSE IF IsSpace(Head(s))
       THEN SplitWs(Tail(s), <<>>, IF cur = <<>> THEN acc ELSE Append(acc, cur))
       ELSE SplitWs(Tail(s), Append(cur, Head(s)), acc)

Split(s) == SplitWs(s, <<>>, <<>>)

\* str.split(sep) for a one-character separator: empty pieces are kept
RECURSIVE SplitOnAcc(_, _, _, _)
SplitOnAcc(s, sep, cur, acc) ==
  IF s = <<>> THEN Append(acc, cur)
  ELSE IF Head(s) = sep
       THEN SplitOnAcc(Tail(s), sep, <<>>, Append(acc, cur))
       ELSE SplitOnAcc(Tail(s), sep, Append(cur, Head(s)), acc)

SplitOn(s, sep) == SplitOnAcc(s, sep, <<>>, <<>>)

StartsWith(s, p) == Len(p) <= Len(s) /\ SubSeq(s, 1, Len(p)) = p

\* `sub in s`
Contains(s, sub) ==
  \E i \in 1..(Len(s) - Len(sub) + 1) : SubSeq(s, i, i + Len(sub) - 1) = sub

\* s.replace(old, new) for a non-empty old: leftmost non-overlapping matches
RECURSIVE Replace(_, _, _)
Replace(s, old, new) ==
  IF s = <<>> \/ old = <<>> THEN s
  ELSE IF StartsWith(s, old)
       THEN new \o Replace(SubSeq(s, Len(old) + 1, Len(s)), old, new)
       ELSE <<Head(s)>> \o Replace(Tail(s), old, new)

RECURSIVE LStrip(_)
LStrip(s) == IF s # <<>> /\ IsSpace(Head(s)) THEN LStrip(Tail(s)) ELSE s

RECURSIVE RStrip(_)
RStrip(s) ==
  IF s # <<>> /\ IsSpace(s[Len(s)]) THEN RStrip(SubSeq(s, 1, Len(s) - 1)) ELSE s

\* str.strip()
Strip(s) == LStrip(RStrip(s))

\* str.zfill(width)
RECURSIVE ZFill(_, _)
ZFill(s, width) == IF Len(s) >= width THEN s ELSE ZFill(<<"0">> \o s, width)

\* str(int(s)) for a digit string: leading zeros are dropped
RECURSIVE IntStr(_)
IntStr(s) == IF Len(s) > 1 /\ Head(s) = "0" THEN IntStr(Tail(s)) ELSE s

\* str(n) for an int n >= 0
RECURSIVE Str(_)
Str(n) ==
  IF n < 10 THEN <<DigitSeq[n + 1]>>
  ELSE Str(n \div 10) \o <<DigitSeq[(n % 10) + 1]>>

\* int(s) mod 100 for a digit string
Mod100(s) ==
  IF Len(s) = 1 THEN DigitVal(s[1])
  ELSE 10 * DigitVal(s[Len(s) - 1]) + DigitVal(s[Len(s)])

\* ------------------------------------------------------------------------
\* Lookup tables (scourgify/address_constants.py, loaded from configuration)
\* ------------------------------------------------------------------------

\* dict.get(key) on a table kept as a sequence of <<key, value>> pairs
Lookup(table, key) ==
  IF \E i \in DOMAIN table : table[i][1] = key
  THEN table[CHOOSE i \in DOMAIN table : table[i][1] = key][2]
  ELSE None

Keys(table) == {table[i][1] : i \in DOMAIN table}

Values(table) == {table[i][2] : i \in DOMAIN table}

ADDRESS_KEYS ==
  <<"address_line_1", "address_line_2", "city", "state", "postal_code">>

KNOWN_ODDITIES == <<>>

PROBLEM_ST_TYPE_ABBRVS == << <<<<"C", "T">>, <<"C", "O", "U", "R", "T">>>> >>

STATE_ABBREVIATIONS ==
  << <<<<"O", "R", "E", "G", "O", "N">>, <<"O", "R">>>>,
     <<<<"O", "R", "E">>, <<"O", "R">>>>,
     <<<<"C", "O", "N", "N", "E", "C", "T", "I", "C", "U", "T">>, <<"C", "T">>>> >>

STREET_TYPE_ABBREVIATIONS ==
  << <<<<"S", "T", "R", "E", "E", "T">>, <<"S", "T">>>>,
     <<<<"A", "V", "E", "N", "U", "E">>, <<"A", "V", "E">>>>,
     <<<<"C", "O", "U", "R", "T">>, <<"C", "T">>>>,
     <<<<"U", "N", "I", "O", "N">>, <<"U", "N">>>> >>

OCCUPANCY_TYPE_ABBREVIATIONS ==
  << <<<<"S", "U", "I", "T", "E">>, <<"S", "T", "E">>>>,
     <<<<"A", "P", "A", "R", "T", "M", "E", "N", "T">>, <<"A", "P", "T">>>>,
     <<<<"U", "N", "I", "T">>, <<"U", "N", "I", "T">>>> >>

DIRECTIONAL_REPLACEMENTS ==
  << <<<<"N", "O", "R", "T", "H">>, <<"N">>>>,
     <<<<"S", "O", "U", "T", "H">>, <<"S">>>>,
     <<<<"S", "O", "U", "T", "H", "W", "E", "S", "T">>, <<"S", "W">>>> >>

ABNORMAL_OCCUPANCY_ABBRVS == {<<"U", "N">>}

\* ------------------------------------------------------------------------
\* scourgify/cleaning.py
\* ------------------------------------------------------------------------

ALLOWED_CHARS == {"#", "&", "-", ".", "/"}

PRECLEAN_EXCLUDE == {"(", ")", ","}

EXCLUDE_ALL == ALLOWED_CHARS \cup PRECLEAN_EXCLUDE

STRIP_CHAR_CATS == {"M", "S", "C", "Nl", "No", "Pc", "Ps", "Pe", "Pi", "Pf", "Po"}

STRIP_PUNC_CATS == {"Z", "Pd"}

STRIP_ALL_CATS == STRIP_CHAR_CATS \cup STRIP_PUNC_CATS

\* the one-letter major class a category string starts with
MajorClass(cat) ==
  IF cat \in {"Lu", "Ll"} THEN "L"
  ELSE IF cat \in {"Nd", "Nl", "No"} THEN "N"
  ELSE IF cat = "Zs" THEN "Z"
  ELSE IF cat = "Cc" THEN "C"
  ELSE IF cat = "Sm" THEN "S"
  ELSE "P"

\* unicodedata.category(char).startswith(cats)
CatStartsWith(c, cats) == Category(c) \in cats \/ MajorClass(Category(c)) \in cats

\* unicodedata.normalize('NFKD', text) on one character
NFKDChar(c) == IF c = "VULGAR_HALF" THEN <<"1", "FRACTION_SLASH", "2">> ELSE <<c>>

NFKD(s) == Flatten([i \in DOMAIN s |-> NFKDChar(s[i])])

\* text.translate({8260: '/'})
FixFraction(s) == [i \in DOMAIN s |-> IF s[i] = "FRACTION_SLASH" THEN "/" ELSE s[i]]

RemoveChars(s, cs) == SelectSeq(s, LAMBDA c : c \notin cs)

\* the loop of clean_upper: a character of a removal category that is not
\* excluded is deleted, any other dash character becomes a hyphen
StripChar(c, exclude, removal_cats) ==
  IF CatStartsWith(c, removal_cats) /\ c \notin exclude THEN <<>>
  ELSE IF CatStartsWith(c, {"Pd"}) THEN <<"-">>
  ELSE <<c>>

clean_upper(text0, exclude, removal_cats, strip_spaces) ==
  LET text == FixFraction(NFKD(text0))
      alnum_text == RemoveChars(text, {",", "&"})
      stripped ==
        IF ~IsAlnum(RemoveChars(alnum_text, {" "}))
        THEN Flatten([i \in DOMAIN text |-> StripChar(text[i], exclude, removal_cats)])
        ELSE text
      join_char == IF strip_spaces THEN <<>> ELSE <<" ">>
  IN  Upper(JoinWith(join_char, Split(stripped)))

\* re.sub(r'\.(?!\d)', '', text)
RECURSIVE clean_period_char(_)
clean_period_char(text) ==
  IF text = <<>> THEN <<>>
  ELSE IF Head(text) = "." /\ ~(Len(text) >= 2 /\ text[2] \in Digits)
       THEN clean_period_char(Tail(text))
       ELSE <<Head(text)>> \o clean_period_char(Tail(text))

\* the first key of the table (in table order) that is a token of the string
\* has its first occurrence replaced; then the loop breaks
clean_ambiguous_street_types(addr_str) ==
  IF Truthy(addr_str)
  THEN LET split_addr == Split(addr_str)
           hits == {k \in DOMAIN PROBLEM_ST_TYPE_ABBRVS :
                      \E i \in DOMAIN split_addr :
                        split_addr[i] = PROBLEM_ST_TYPE_ABBRVS[k][1]}
       IN  IF hits = {} THEN addr_str
           ELSE LET k == CHOOSE k \in hits : \A j \in hits : k <= j
                    key == PROBLEM_ST_TYPE_ABBRVS[k][1]
                    at == CHOOSE i \in DOMAIN split_addr :
                            /\ split_addr[i] = key
                            /\ \A j \in 1..(i - 1) : split_addr[j] # key
                IN  JoinWith(<<" ">>,
                      [i \in DOMAIN split_addr |->
                         IF i = at THEN PROBLEM_ST_TYPE_ABBRVS[k][2]
                         ELSE split_addr[i]])
  ELSE addr_str

RECURSIVE ReplaceAll(_, _, _)
ReplaceAll(s, table, k) ==
  IF k > Len(table) THEN s
  ELSE ReplaceAll(Replace(s, table[k][1], table[k][2]), table, k + 1)

pre_clean_addr_str(addr_str, state) ==
  LET a1 == IF \E k \in DOMAIN KNOWN_ODDITIES : Contains(addr_str, KNOWN_ODDITIES[k][1])
            THEN ReplaceAll(addr_str, KNOWN_ODDITIES, 1)
            ELSE addr_str
      a2 == IF \E i \in DOMAIN a1 : a1[i] = "." THEN clean_period_char(a1) ELSE a1
      a3 == clean_upper(a2, EXCLUDE_ALL, STRIP_CHAR_CATS, FALSE)
  IN  IF Truthy(state) /\ state # <<"C", "T">>
      THEN clean_ambiguous_street_types(a3)
      ELSE a3

post_clean_addr_str(addr_str) ==
  IF Truthy(addr_str)
  THEN clean_upper(addr_str, ALLOWED_CHARS, STRIP_CHAR_CATS, FALSE)
  ELSE addr_str

\* ------------------------------------------------------------------------
\* ParsedComponents: an OrderedDict, kept as a sequence of <<label, value>>
\* ------------------------------------------------------------------------

HasKey(m, label) == \E i \in DOMAIN m : m[i][1] = label

\* m.get(label)
Get(m, label) ==
  IF HasKey(m, label) THEN m[CHOOSE i \in DOMAIN m : m[i][1] = label][2] ELSE None

\* m[label] = v / m.update({label: v}): in place when present, appended otherwise
Put(m, label, v) ==
  IF HasKey(m, label)
  THEN [i \in DOMAIN m |-> IF m[i][1] = label THEN <<label, v>> ELSE m[i]]
  ELSE Append(m, <<label, v>>)

\* del m[label] / m.pop(label, None)
Del(m, label) == SelectSeq(m, LAMBDA e : e[1] # label)

InsertAt(seq, i, e) == SubSeq(seq, 1, i - 1) \o <<e>> \o SubSeq(seq, i, Len(seq))

LINE1_USADDRESS_LABELS ==
  {"AddressNumber", "StreetName", "AddressNumberPrefix", "AddressNumberSuffix",
   "StreetNamePreDirectional", "StreetNamePostDirectional",
   "StreetNamePreModifier", "StreetNamePostType", "StreetNamePreType",
   "IntersectionSeparator", "SecondStreetNamePreDirectional",
   "SecondStreetNamePostDirectional", "SecondStreetNamePreModifier",
   "SecondStreetNamePostType", "SecondStreetNamePreType", "LandmarkName",
   "CornerOf", "BuildingName"}

LINE2_USADDRESS_LABELS ==
  {"OccupancyType", "OccupancyIdentifier", "SubaddressIdentifier", "SubaddressType"}

LAST_LINE_LABELS == {"PlaceName", "StateName", "ZipCode"}

AMBIGUOUS_LABELS ==
  {"Recipient", "USPSBoxType", "USPSBoxID", "USPSBoxGroupType",
   "USPSBoxGroupID", "NotAddress"}

\* ------------------------------------------------------------------------
\* scourgify/validations.py
\* ------------------------------------------------------------------------

\* the address record / field map: the five standard keys, None when absent
Rec(l1, l2, c, s, z) ==
  [address_line_1 |-> l1, address_line_2 |-> l2, city |-> c, state |-> s,
   postal_code |-> z]

\* a completeness check that always applies the lenient rule
validate_address_components_lenient(address_dict, strict) ==
  /\ Truthy(address_dict.address_line_1)
  /\ \/ Truthy(address_dict.postal_code)
     \/ (Truthy(address_dict.city) /\ Truthy(address_dict.state))

\* TRUE when the components are accepted, FALSE for IncompleteAddressError
validate_address_components(address_dict, strict) ==
  LET locality ==
        IF strict
        THEN /\ Truthy(address_dict.postal_code)
             /\ Truthy(address_dict.city)
             /\ Truthy(address_dict.state)
        ELSE \/ Truthy(address_dict.postal_code)
             \/ (Truthy(address_dict.city) /\ Truthy(address_dict.state))
  IN  IF ~Truthy(address_dict.address_line_1) THEN FALSE
      ELSE IF ~locality THEN FALSE
      ELSE TRUE

\* [err |-> TRUE] for AddressValidationError, else the returned postal code
validate_us_postal_code_format(postal_code0) ==
  LET postal_code == post_clean_addr_str(postal_code0)
      plus_four_code == SplitOn(postal_code, "-")
      bad_int == \E i \in DOMAIN plus_four_code : ~IsInt(plus_four_code[i])
      has_hyphen == \E i \in DOMAIN postal_code : postal_code[i] = "-"
  IN  IF bad_int THEN [err |-> TRUE, val |-> postal_code]
      ELSE IF has_hyphen
      THEN IF Len(RemoveChars(postal_code, {"-"})) > 9
           THEN [err |-> TRUE, val |-> postal_code]
           ELSE IF Len(plus_four_code) # 2
           THEN [err |-> TRUE, val |-> postal_code]
           ELSE [err |-> FALSE,
                 val |-> ZFill(plus_four_code[1], 5) \o <<"-">>
                           \o ZFill(plus_four_code[2], 4)]
      ELSE IF Len(postal_code) = 9
      THEN [err |-> FALSE,
            val |-> SubSeq(postal_code, 1, 5) \o <<"-">> \o SubSeq(postal_code, 6, 9)]
      ELSE IF Len(postal_code) > 5
      THEN [err |-> TRUE, val |-> postal_code]
      ELSE [err |-> FALSE, val |-> ZFill(postal_code, 5)]

\* re.findall(r'\((.+?)\)', line1) is non-empty
HasParensGroup(line1) ==
  \E i, j \in DOMAIN line1 : line1[i] = "(" /\ line1[j] = ")" /\ j >= i + 2

\* A variant that guards the regex search against a missing line 1, so that
\* a record without line 1 would pass.
validate_parens_groups_parsed_none_ok(line1) ==
  IF line1 # None /\ HasParensGroup(line1) THEN "AmbiguousAddressError"
  ELSE "ok"

\* "ok", "AmbiguousAddressError", or "TypeError" (re.findall on None)
validate_parens_groups_parsed(line1) ==
  IF line1 = None THEN "TypeError"
  ELSE IF HasParensGroup(line1) THEN "AmbiguousAddressError"
  ELSE "ok"

\* ------------------------------------------------------------------------
\* scourgify/normalize.py: the normalization rules
\* ------------------------------------------------------------------------

\* an indicator chosen by the last digit alone, with no exception for
\* numbers ending in 11, 12 or 13
get_ordinal_indicator_last_digit(str_num) ==
  LET last == str_num[Len(str_num)]
  IN  IF last = "1" THEN <<"s", "t">>
      ELSE IF last = "2" THEN <<"n", "d">>
      ELSE IF last = "3" THEN <<"r", "d">>
      ELSE <<"t", "h">>

\* the suffix for str(number), a digit string with an optional sign
get_ordinal_indicator(str_num) ==
  LET digits == Len(str_num)
      last == str_num[digits]
      last2 == IF digits >= 2 THEN SubSeq(str_num, digits - 1, digits) ELSE <<>>
  IN  IF last = "1" /\ ~(digits >= 2 /\ last2 = <<"1", "1">>) THEN <<"s", "t">>
      ELSE IF last = "2" /\ ~(digits >= 2 /\ last2 = <<"1", "2">>) THEN <<"n", "d">>
      ELSE IF last = "3" /\ ~(digits >= 2 /\ last2 = <<"1", "3">>) THEN <<"r", "d">>
      ELSE <<"t", "h">>

\* int(value) succeeds: an optional sign and digits
IsIntLiteral(v) ==
  \/ IsInt(v)
  \/ (Len(v) >= 2 /\ v[1] \in {"-", "+"} /\ IsInt(Tail(v)))

\* str(int(value))
CardinalStr(v) ==
  LET digs == IF v[1] \in {"-", "+"} THEN Tail(v) ELSE v
      mag == IntStr(digs)
  IN  IF v[1] = "-" /\ mag # <<"0">> THEN <<"-">> \o mag ELSE mag

NumberOneStreet(parsed_addr, tag, post_type_tag) ==
  IF HasKey(parsed_addr, tag) /\ HasKey(parsed_addr, post_type_tag)
     /\ IsIntLiteral(Get(parsed_addr, tag))
  THEN LET cardinal == CardinalStr(Get(parsed_addr, tag))
       IN  Put(parsed_addr, tag, cardinal \o get_ordinal_indicator(cardinal))
  ELSE parsed_addr

normalize_numbered_streets(parsed_addr) ==
  NumberOneStreet(
    NumberOneStreet(parsed_addr, "StreetName", "StreetNamePostType"),
    "SecondStreetName", "SecondStreetNamePostType")

\* the labels of the usaddress vocabulary that contain 'Directional'
DirectionalLabels ==
  {"StreetNamePreDirectional", "StreetNamePostDirectional",
   "SecondStreetNamePreDirectional", "SecondStreetNamePostDirectional"}

\* the labels of the usaddress vocabulary that contain 'Street' and 'Type'
StreetTypeLabels ==
  {"StreetNamePostType", "StreetNamePreType",
   "SecondStreetNamePostType", "SecondStreetNamePreType"}

normalize_directionals(parsed_addr) ==
  [i \in DOMAIN parsed_addr |->
     IF parsed_addr[i][1] \in DirectionalLabels
     THEN LET dir_str == clean_upper(parsed_addr[i][2], {}, STRIP_ALL_CATS, TRUE)
          IN  IF dir_str \in Keys(DIRECTIONAL_REPLACEMENTS)
              THEN <<parsed_addr[i][1], Lookup(DIRECTIONAL_REPLACEMENTS, dir_str)>>
              ELSE parsed_addr[i]
     ELSE parsed_addr[i]]

\* a street-type rule that guesses against typos: a value that is not a key
\* gets the abbreviation of the first key starting with the same two letters
normalize_street_types_by_prefix(parsed_addr) ==
  [i \in DOMAIN parsed_addr |->
     IF parsed_addr[i][1] \in StreetTypeLabels
     THEN LET v == parsed_addr[i][2]
              type_abbr == Lookup(STREET_TYPE_ABBREVIATIONS, v)
              near == {k \in DOMAIN STREET_TYPE_ABBREVIATIONS :
                         /\ Len(v) >= 2
                         /\ SubSeq(STREET_TYPE_ABBREVIATIONS[k][1], 1, 2) = SubSeq(v, 1, 2)}
          IN  IF Truthy(type_abbr) THEN <<parsed_addr[i][1], type_abbr>>
              ELSE IF near # {}
              THEN <<parsed_addr[i][1],
                     STREET_TYPE_ABBREVIATIONS[CHOOSE k \in near : \A j \in near : k <= j][2]>>
              ELSE parsed_addr[i]
     ELSE parsed_addr[i]]

normalize_street_types(parsed_addr) ==
  [i \in DOMAIN parsed_addr |->
     IF parsed_addr[i][1] \in StreetTypeLabels
     THEN LET type_abbr == Lookup(STREET_TYPE_ABBREVIATIONS, parsed_addr[i][2])
          IN  IF Truthy(type_abbr)
              THEN <<parsed_addr[i][1], type_abbr>>
              ELSE parsed_addr[i]
     ELSE parsed_addr[i]]

\* [exc |-> "ValueError"] when list.index does not find the identifier entry
normalize_occupancy_type(parsed_addr0) ==
  LET default == <<"U", "N", "I", "T">>
      occupancy_type == Get(parsed_addr0, "OccupancyType")
      parsed_addr == Del(parsed_addr0, "OccupancyType")
      looked_up ==
        IF occupancy_type \in Values(OCCUPANCY_TYPE_ABBREVIATIONS)
        THEN occupancy_type
        ELSE Lookup(OCCUPANCY_TYPE_ABBREVIATIONS, occupancy_type)
      occupancy_id == Get(parsed_addr, "OccupancyIdentifier")
      occupancy_type_abbr ==
        IF (Truthy(occupancy_id) /\ ~StartsWith(occupancy_id, <<"#">>))
           /\ ~Truthy(looked_up)
        THEN default
        ELSE looked_up
  IN  IF Truthy(occupancy_type_abbr)
      THEN IF HasKey(parsed_addr, "OccupancyIdentifier")
           THEN LET index == CHOOSE i \in DOMAIN parsed_addr :
                               parsed_addr[i][1] = "OccupancyIdentifier"
                IN  [exc |-> "none",
                     val |-> InsertAt(parsed_addr, index,
                                      <<"OccupancyType", occupancy_type_abbr>>)]
           ELSE [exc |-> "ValueError", val |-> parsed_addr]
      ELSE [exc |-> "none", val |-> parsed_addr]

normalize_address_components(parsed_addr) ==
  normalize_occupancy_type(
    normalize_street_types(
      normalize_directionals(
        normalize_numbered_streets(parsed_addr))))

normalize_state(state) ==
  IF Truthy(state)
  THEN LET state_abbrv == Lookup(STATE_ABBREVIATIONS, Upper(state))
       IN  IF Truthy(state_abbrv) THEN state_abbrv ELSE state
  ELSE state

\* A variant that prefers the caller-supplied value over a differing parsed
\* value instead of raising.
get_parsed_values_keep_supplied(parsed_addr, orig_val0, val_label) ==
  LET val_from_parse == post_clean_addr_str(Get(parsed_addr, val_label))
      orig_val == post_clean_addr_str(orig_val0)
  IN  [exc |-> "none",
       val |-> IF orig_val # None THEN orig_val ELSE val_from_parse]

\* A variant that compares the caller-supplied value as given, without
\* post-cleaning it.
get_parsed_values_raw_supplied(parsed_addr, orig_val0, val_label) ==
  LET val_from_parse == post_clean_addr_str(Get(parsed_addr, val_label))
      non_null_val_set == {orig_val0, val_from_parse} \ {None}
  IN  IF Cardinality(non_null_val_set) > 1
      THEN [exc |-> "AmbiguousAddressError", val |-> None]
      ELSE [exc |-> "none",
            val |-> IF non_null_val_set # {}
                    THEN CHOOSE v \in non_null_val_set : TRUE
                    ELSE None]

\* [exc |-> "AmbiguousAddressError"] when the two values conflict
\* a reconciliation that abbreviates both values before comparing them
get_parsed_values_abbreviated(parsed_addr, orig_val0, val_label) ==
  LET val_from_parse ==
        normalize_state(post_clean_addr_str(Get(parsed_addr, val_label)))
      orig_val == normalize_state(post_clean_addr_str(orig_val0))
      non_null_val_set == {orig_val, val_from_parse} \ {None}
  IN  IF Cardinality(non_null_val_set) > 1
      THEN [exc |-> "AmbiguousAddressError", val |-> None]
      ELSE [exc |-> "none",
            val |-> IF non_null_val_set # {}
                    THEN CHOOSE v \in non_null_val_set : TRUE
                    ELSE None]

get_parsed_values(parsed_addr, orig_val0, val_label) ==
  LET val_from_parse == post_clean_addr_str(Get(parsed_addr, val_label))
      orig_val == post_clean_addr_str(orig_val0)
      non_null_val_set == {orig_val, val_from_parse} \ {None}
  IN  IF Cardinality(non_null_val_set) > 1
      THEN [exc |-> "AmbiguousAddressError", val |-> None]
      ELSE [exc |-> "none",
            val |-> IF non_null_val_set # {}
                    THEN CHOOSE v \in non_null_val_set : TRUE
                    ELSE None]

\* ' '.join(line_elems), before it is post-cleaned (None without elements)
joined_line_elems(parsed_addr, line_labels) ==
  LET line_elems == SelectSeq(parsed_addr, LAMBDA e : e[1] \in line_labels)
  IN  IF line_elems # <<>>
      THEN JoinWith(<<" ">>, [i \in DOMAIN line_elems |-> line_elems[i][2]])
      ELSE None

get_normalized_line_segment(parsed_addr, line_labels) ==
  LET line_elems == SelectSeq(parsed_addr, LAMBDA e : e[1] \in line_labels)
      line_str ==
        IF line_elems # <<>>
        THEN JoinWith(<<" ">>, [i \in DOMAIN line_elems |-> line_elems[i][2]])
        ELSE None
  IN  post_clean_addr_str(line_str)

\* the values of the fields named in addr_parts that are truthy, joined
get_addr_line_str(addr_dict, addr_parts, comma_separate) ==
  LET separator == IF comma_separate THEN <<",", " ">> ELSE <<" ">>
      present == SelectSeq(addr_parts, LAMBDA k : Truthy(addr_dict[k]))
  IN  JoinWith(separator, [i \in DOMAIN present |-> addr_dict[present[i]]])

format_address_record(address) ==
  get_addr_line_str(address, ADDRESS_KEYS, TRUE)

\* ------------------------------------------------------------------------
\* The external tagger, usaddress.tag(addr_str)
\*
\* The tagger splits the string into tokens, gives every token a label and
\* returns the tokens grouped by label, in order of first appearance, with
\* the address type; a label that comes back after another label raises
\* RepeatedLabelError.  Which label a token gets is the tagger's choice: the
\* model draws the labelling from TagPool.
\* ------------------------------------------------------------------------

\* '#' and '&' are tokens of their own
RECURSIVE SplitMarks(_, _, _)
SplitMarks(piece, cur, acc) ==
  IF piece = <<>> THEN (IF cur = <<>> THEN acc ELSE Append(acc, cur))
  ELSE IF Head(piece) \in {"#", "&"}
       THEN SplitMarks(Tail(piece), <<>>,
                       Append(IF cur = <<>> THEN acc ELSE Append(acc, cur),
                              <<Head(piece)>>))
       ELSE SplitMarks(Tail(piece), Append(cur, Head(piece)), acc)

IsToken(t) == t \in {<<"#">>, <<"&">>} \/ \E i \in DOMAIN t : IsAlnumChar(t[i])

Tokenize(s) ==
  LET pieces == Split(s)
      marks == Flatten([i \in DOMAIN pieces |-> SplitMarks(pieces[i], <<>>, <<>>)])
  IN  SelectSeq(marks, IsToken)

RECURSIVE LStripSet(_, _)
LStripSet(s, cs) == IF s # <<>> /\ Head(s) \in cs THEN LStripSet(Tail(s), cs) ELSE s

RECURSIVE RStripSet(_, _)
RStripSet(s, cs) ==
  IF s # <<>> /\ s[Len(s)] \in cs THEN RStripSet(SubSeq(s, 1, Len(s) - 1), cs) ELSE s

\* component.strip(" ,;")
StripPunct(s) == LStripSet(RStripSet(s, {" ", ",", ";"}), {" ", ",", ";"})

\* the labels of a labelling, in order of first appearance
RECURSIVE LabelOrder(_, _)
LabelOrder(labels, acc) ==
  IF labels = <<>> THEN acc
  ELSE LabelOrder(Tail(labels),
                  IF \E i \in DOMAIN acc : acc[i] = Head(labels)
                  THEN acc ELSE Append(acc, Head(labels)))

\* a label is used again after a different label
IsRepeatedLabel(labels) ==
  \E i, j, k \in DOMAIN labels :
    i < j /\ j < k /\ labels[i] = labels[k] /\ labels[j] # labels[i]

TokensOf(toks, labels, l) ==
  LET idx == SelectSeq([i \in DOMAIN toks |-> i], LAMBDA i : labels[i] = l)
  IN  [i \in DOMAIN idx |-> toks[idx[i]]]

\* the tagger's result for tokens labelled by p.labels
TagWith(toks, p) ==
  IF IsRepeatedLabel(p.labels)
  THEN [exc |-> "RepeatedLabelError", m |-> <<>>, type |-> p.type]
  ELSE LET order == LabelOrder(p.labels, <<>>)
       IN  [exc |-> "none",
            m |-> [i \in DOMAIN order |->
                     <<order[i],
                       StripPunct(JoinWith(<<" ">>, TokensOf(toks, p.labels, order[i])))>>],
            type |-> p.type]

Pat(labels, type) == [labels |-> labels, type |-> type]

\* the labellings the tagger may choose, by number of tokens
TagPool ==
  { Pat(<<>>, "Street Address"),
    Pat(<<"AddressNumber">>, "Street Address"),
    Pat(<<"AddressNumber", "StreetName">>, "Street Address"),
    Pat(<<"AddressNumber", "PlaceName">>, "Street Address"),
    Pat(<<"AddressNumber", "NotAddress">>, "Street Address"),
    Pat(<<"AddressNumber", "StreetName">>, "Ambiguous"),
    Pat(<<"AddressNumber", "StreetName", "NotAddress">>, "Street Address"),
    Pat(<<"PlaceName", "ZipCode">>, "Street Address"),
    Pat(<<"AddressNumber", "StreetName", "StreetNamePostType">>, "Street Address"),
    Pat(<<"AddressNumber", "StreetName", "OccupancyType">>, "Street Address"),
    Pat(<<"AddressNumber", "StreetName", "OccupancyIdentifier">>, "Street Address"),
    Pat(<<"AddressNumber", "StreetName", "PlaceName">>, "Street Address"),
    Pat(<<"StreetName", "AddressNumber", "StreetName">>, "Street Address"),
    Pat(<<"StreetName", "IntersectionSeparator", "SecondStreetName">>,
        "Intersection"),
    Pat(<<"AddressNumber", "StreetName", "StreetNamePostType",
          "OccupancyIdentifier">>, "Street Address"),
    Pat(<<"AddressNumber", "StreetName", "OccupancyIdentifier",
          "OccupancyIdentifier">>, "Street Address"),
    Pat(<<"AddressNumber", "StreetName", "PlaceName", "StateName", "ZipCode">>,
        "Street Address"),
    Pat(<<"AddressNumber", "StreetName", "StreetNamePostType",
          "OccupancyIdentifier", "OccupancyIdentifier">>, "Street Address"),
    Pat(<<"AddressNumber", "PlaceName", "PlaceName", "StateName", "ZipCode">>,
        "Street Address"),
    Pat(<<"AddressNumber", "StreetName", "StreetNamePostType", "PlaceName",
          "StateName", "ZipCode">>, "Street Address"),
    Pat(<<"AddressNumber", "StreetName", "StreetNamePostType",
          "OccupancyIdentifier", "PlaceName", "StateName", "ZipCode">>,
        "Street Address") }

\* what the tagger may return for addr_str: a labelling of the pool that
\* fits the number of tokens, or the whole string as one Recipient
\* component of an address of type 'Ambiguous'
TagChoices(addr_str) ==
  LET toks == Tokenize(addr_str)
      whole == Pat([i \in DOMAIN toks |-> "Recipient"], "Ambiguous")
  IN  {TagWith(toks, p) : p \in {q \in TagPool : Len(q.labels) = Len(toks)} \cup {whole}}

\* ------------------------------------------------------------------------
\* Bounds and inputs
\* ------------------------------------------------------------------------

\* depth of parse_address_string <-> handle_abnormal_occupancy recursion at
\* which the interpreter raises RecursionError
RecursionLimit == 3

\* number of recovery functions a caller supplies
MaxFuncs == 2

S_1_Main_St == <<"1", " ", "M", "a", "i", "n", " ", "S", "t">>

S_1_Main_Ste == <<"1", " ", "M", "a", "i", "n", " ", "S", "t", "e">>

S_1_Main_Un == <<"1", " ", "M", "a", "i", "n", " ", "U", "n">>

S_1_Main_Un_A == <<"1", " ", "M", "a", "i", "n", " ", "U", "n", " ", "A">>

S_1_Main_Paren == <<"1", " ", "M", "a", "i", "n", " ", "(", "x", ")">>

S_1_Main_Ste_Paren ==
  <<"1", " ", "M", "a", "i", "n", " ", "S", "t", "e", " ", "(", "x", ")">>

S_1_Main_Un_Un_A ==
  <<"1", " ", "M", "a", "i", "n", " ", "U", "n", " ", "U", "n", " ", "A">>

S_Semicolon == <<";">>

S_1_Main_Bo_OR_97009 ==
  <<"1", " ", "M", "a", "i", "n", " ", "B", "o", " ", "O", "R", " ",
    "9", "7", "0", "0", "9">>

S_1_Main_Bo_OR_972 ==
  <<"1", " ", "M", "a", "i", "n", " ", "B", "o", " ", "O", "R", " ",
    "9", "7", "2">>

S_A == <<"A">>

S_Bo == <<"B", "o">>

S_OR == <<"O", "R">>

S_Oregon == <<"O", "r", "e", "g", "o", "n">>

Z_97009 == <<"9", "7", "0", "0", "9">>

Z_972 == <<"9", "7", "2">>

Z_9721900 == <<"9", "7", "2", "1", "9", "0", "0">>

\* address strings passed to normalize_address_record
AddrStrings ==
  {S_1_Main_St, S_1_Main_Ste, S_1_Main_Un_A, S_1_Main_Paren, S_1_Main_Ste_Paren,
   S_1_Main_Bo_OR_97009, S_1_Main_Bo_OR_972}

\* arguments of direct calls of normalize_addr_str
StrArgs ==
  {<<a, l2, c, st, z>> :
     a \in {S_1_Main_St, S_1_Main_Un_A, S_1_Main_Un_Un_A, S_1_Main_Paren,
            S_1_Main_Ste_Paren},
     l2 \in {None, S_A}, c \in {None, S_Bo}, st \in {None, S_Oregon},
     z \in {None, Z_97009}}
  \cup {<<S_1_Main_Bo_OR_97009, None, None, st, None>> : st \in {S_Oregon, S_OR}}

Line1s == {None, S_1_Main_St, S_1_Main_Un, S_Semicolon}

Line2s == {None, S_A}

Cities == {None, S_Bo}

States == {None, S_Oregon}

PostalCodes == {None, Z_97009, Z_972, Z_9721900}

\* field maps passed to normalize_address_record (under the standard keys,
\* that is, after the addr_map renaming of normalize_addr_dict)
AddrDicts ==
  {Rec(l1, l2, c, s, z) :
     l1 \in Line1s, l2 \in Line2s, c \in Cities, s \in States, z \in PostalCodes}

\* caller-supplied recovery functions: "paren" splits the string at its
\* first '(' and raises ValueError when there is none; "never" always raises
\* ValueError; "whole" returns the string as line 1 with an empty line 2
RecoveryFns == {"paren", "never", "whole"}

FuncLists ==
  {fs \in UNION {[1..n -> RecoveryFns] : n \in 0..MaxFuncs} :
     \A i, j \in DOMAIN fs : i # j => fs[i] # fs[j]}

FirstIndex(s, c) ==
  CHOOSE i \in DOMAIN s : s[i] = c /\ \A j \in 1..(i - 1) : s[j] # c

\* line1, line2 = func(addr_str)
ApplyFunc(fn, addr_str) ==
  IF fn = "paren" /\ \E i \in DOMAIN addr_str : addr_str[i] = "("
  THEN LET at == FirstIndex(addr_str, "(")
       IN  [ok |-> TRUE,
            line1 |-> SubSeq(addr_str, 1, at - 1),
            line2 |-> SubSeq(addr_str, at, Len(addr_str))]
  ELSE IF fn = "whole"
  THEN [ok |-> TRUE, line1 |-> addr_str, line2 |-> <<>>]
  ELSE [ok |-> FALSE, line1 |-> None, line2 |-> None]

\* ------------------------------------------------------------------------
\* State
\* ------------------------------------------------------------------------

VARIABLES
  pc,        \* where the current call of normalize_address_record stands
  call,      \* its arguments; call.no counts the calls made
  f,         \* the locals of the active normalize_addr_str invocation
  retag,     \* the handle_abnormal_occupancy invocations waiting for a re-tag
  memo,      \* what the tagger has returned so far, per string: it is deterministic
  outcome,   \* what the invocation / the call returned or raised
  hist,      \* history of the call: conflicts seen, recovery functions called
  unit       \* one application of a single function to drawn arguments

vars == <<pc, call, f, retag, memo, outcome, hist, unit>>

NoRec == Rec(None, None, None, None, None)

NormalizationErrors ==
  {"AmbiguousAddressError", "UnParseableAddressError",
   "IncompleteAddressError", "AddressValidationError"}

NoCall == [kind |-> "none", address |-> NoRec, strict |-> TRUE, funcs |-> <<>>, no |-> 0]

\* the locals of normalize_addr_str on entry
Frame(addr_str, line2, city, state, zipcode, funcs, attempt, depth) ==
  [addr_str |-> addr_str, line2 |-> line2, city |-> city, state |-> state,
   zipcode |-> zipcode, funcs |-> funcs, error |-> FALSE,
   has_parsed |-> FALSE, parsed |-> <<>>, tag_str |-> <<>>, which |-> 1,
   attempt |-> attempt, depth |-> depth,
   \* the invocation waiting in its loop over addtl_funcs for this one to
   \* return (<<>> when there is none), and the next function of its loop
   caller |-> <<>>, fi |-> 1,
   \* what handle_abnormal_occupancy did to the components: "none",
   \* "strip" or "retag"
   fix |-> "none"]

NoFrame == Frame(<<>>, None, None, None, None, <<>>, 0, 0)

NoOutcome == [kind |-> "none", rec |-> NoRec]

NoHist ==
  [conflict |-> FALSE, last_conflict |-> FALSE, func_calls |-> <<>>,
   first |-> NoRec, noop_retag |-> FALSE, line1_parens |-> FALSE,
   swallowed |-> FALSE]

NoUnit == [fn |-> "none", arg |-> <<>>, res |-> <<>>, done |-> FALSE]

\* no call of normalize_address_record has been made
Idle ==
  /\ pc = "idle"
  /\ call = NoCall
  /\ f = NoFrame
  /\ retag = <<>>
  /\ memo = {}
  /\ outcome = NoOutcome
  /\ hist = NoHist

Init ==
  /\ Idle
  /\ unit = NoUnit

\* ------------------------------------------------------------------------
\* normalize_address_record
\* ------------------------------------------------------------------------

\* normalize_address_record(address: str, addtl_funcs=funcs, strict=strict):
\* strict is not passed on to normalize_addr_str
CallStr(address, funcs, strict) ==
  /\ pc = "idle"
  /\ call' = [kind |-> "str", address |-> Rec(address, None, None, None, None),
              strict |-> strict, funcs |-> funcs, no |-> 1]
  /\ f' = Frame(address, None, None, None, None, funcs, 0, 0)
  /\ pc' = "str"
  /\ UNCHANGED <<retag, memo, outcome, hist, unit>>

\* normalize_addr_str(addr_str, line2, city, state, zipcode, addtl_funcs)
\* called directly
CallAddrStr(addr_str, line2, city, state, zipcode, funcs) ==
  /\ pc = "idle"
  /\ call' = [kind |-> "addr_str",
              address |-> Rec(addr_str, line2, city, state, zipcode),
              strict |-> TRUE, funcs |-> funcs, no |-> 1]
  /\ f' = Frame(addr_str, line2, city, state, zipcode, funcs, 0, 0)
  /\ pc' = "str"
  /\ UNCHANGED <<retag, memo, outcome, hist, unit>>

\* normalize_address_record(address: Mapping, addtl_funcs=funcs, strict=strict)
CallDict(address, funcs, strict) ==
  /\ pc = "idle"
  /\ call' = [kind |-> "dict", address |-> address, strict |-> strict,
              funcs |-> funcs, no |-> 1]
  /\ pc' = "dict"
  /\ UNCHANGED <<f, retag, memo, outcome, hist, unit>>

\* a normalize_addr_dict that validates inside its try block: a validation
\* error is raised where the except clause catches it
DictValidate_in_try ==
  /\ pc = "dict"
  /\ LET addr_dict == call.address
         zip == IF Truthy(addr_dict.postal_code)
                THEN validate_us_postal_code_format(addr_dict.postal_code)
                ELSE [err |-> FALSE, val |-> None]
     IN  /\ f' = Frame(get_addr_line_str(addr_dict,
                           <<"address_line_1", "address_line_2">>, TRUE),
                       None, addr_dict.city, addr_dict.state, zip.val,
                       call.funcs, 1, 0)
         /\ IF ~validate_address_components(addr_dict, call.strict)
            THEN /\ outcome' = [kind |-> "IncompleteAddressError",
                                rec |-> NoRec]
                 /\ pc' = "ret"
            ELSE IF zip.err
            THEN /\ outcome' = [kind |-> "AddressValidationError",
                                rec |-> NoRec]
                 /\ pc' = "ret"
            ELSE /\ pc' = "str"
                 /\ outcome' = outcome
  /\ UNCHANGED <<call, retag, memo, hist, unit>>

\* normalize_addr_dict up to its first call of normalize_addr_str
DictValidate ==
  /\ pc = "dict"
  /\ LET addr_dict == call.address
         postal_code == addr_dict.postal_code
         zip == IF Truthy(postal_code)
                THEN validate_us_postal_code_format(postal_code)
                ELSE [err |-> FALSE, val |-> None]
     IN  IF ~validate_address_components(addr_dict, call.strict)
         THEN /\ outcome' = [kind |-> "IncompleteAddressError", rec |-> NoRec]
              /\ pc' = "done"
              /\ f' = f
         ELSE IF zip.err
         THEN /\ outcome' = [kind |-> "AddressValidationError", rec |-> NoRec]
              /\ pc' = "done"
              /\ f' = f
         ELSE /\ f' = Frame(get_addr_line_str(addr_dict,
                                <<"address_line_1", "address_line_2">>, TRUE),
                            None, addr_dict.city, addr_dict.state, zip.val,
                            call.funcs, 1, 0)
              /\ pc' = "str"
              /\ outcome' = outcome
  /\ UNCHANGED <<call, retag, memo, hist, unit>>

\* ------------------------------------------------------------------------
\* normalize_addr_str
\* ------------------------------------------------------------------------

\* line 192: addr_str = pre_clean_addr_str(addr_str, normalize_state(state))
PreClean ==
  /\ pc = "str"
  /\ LET addr_str == pre_clean_addr_str(f.addr_str, normalize_state(f.state))
     IN  f' = [f EXCEPT !.addr_str = addr_str, !.tag_str = addr_str, !.which = 1]
  /\ pc' = "parse"
  /\ UNCHANGED <<call, retag, memo, outcome, hist, unit>>

\* a correction that re-inserts the identifier before the occupancy type
handle_abnormal_occupancy_id_first(parsed_addr, addr_str) ==
  LET street_type == Get(parsed_addr, "StreetNamePostType")
      occupancy_type ==
        IF HasKey(parsed_addr, "OccupancyType") THEN Get(parsed_addr, "OccupancyType")
        ELSE IF HasKey(parsed_addr, "SubaddressType")
        THEN Get(parsed_addr, "SubaddressType")
        ELSE None
      occupancy == Get(parsed_addr, "OccupancyIdentifier")
      same == [kind |-> "return", m |-> parsed_addr, str |-> addr_str,
               fix |-> <<None, "OccupancyIdentifier", None>>]
  IN  IF street_type \in ABNORMAL_OCCUPANCY_ABBRVS
         /\ Truthy(occupancy) /\ ~Truthy(occupancy_type)
      THEN IF Contains(occupancy, street_type)
           THEN [same EXCEPT
                   !.m = Put(Put(Del(parsed_addr, "OccupancyIdentifier"),
                                 "OccupancyIdentifier",
                                 Strip(Replace(occupancy, street_type, <<>>))),
                             "OccupancyType", street_type)]
           ELSE [kind |-> "retag", m |-> parsed_addr,
                 str |-> Replace(addr_str, street_type \o <<" ">> \o occupancy,
                                 <<>>),
                 fix |-> <<street_type, "OccupancyIdentifier", occupancy>>]
      ELSE same

handle_abnormal_occupancy(parsed_addr, addr_str) ==
  LET street_type == Get(parsed_addr, "StreetNamePostType")
      occupancy_type ==
        IF HasKey(parsed_addr, "OccupancyType") THEN Get(parsed_addr, "OccupancyType")
        ELSE IF HasKey(parsed_addr, "SubaddressType")
        THEN Get(parsed_addr, "SubaddressType")
        ELSE None
      \* the loop over the identifier keys breaks on the first key, found or not
      occupancy_id_key == "OccupancyIdentifier"
      occupancy == Get(parsed_addr, occupancy_id_key)
      same == [kind |-> "return", m |-> parsed_addr, str |-> addr_str,
               fix |-> <<None, occupancy_id_key, None>>]
  IN  IF street_type \in ABNORMAL_OCCUPANCY_ABBRVS
      THEN IF Truthy(occupancy) /\ ~Truthy(occupancy_type)
           THEN IF Contains(occupancy, street_type)
                THEN LET stripped == Strip(Replace(occupancy, street_type, <<>>))
                     IN  [same EXCEPT
                            !.m = Put(Put(Del(parsed_addr, occupancy_id_key),
                                          "OccupancyType", street_type),
                                      occupancy_id_key, stripped)]
                ELSE LET line2 == street_type \o <<" ">> \o occupancy
                     IN  [kind |-> "retag", m |-> parsed_addr,
                          str |-> Replace(addr_str, line2, <<>>),
                          fix |-> <<street_type, occupancy_id_key, occupancy>>]
           ELSE same
      ELSE same

\* the two updates each waiting handle_abnormal_occupancy applies to the
\* re-tagged components, innermost invocation first
RECURSIVE Unwind(_, _)
Unwind(m, stack) ==
  IF stack = <<>> THEN m
  ELSE LET fix == stack[Len(stack)]
       IN  Unwind(Put(Put(m, "OccupancyType", fix[1]), fix[2], fix[3]),
                  SubSeq(stack, 1, Len(stack) - 1))

\* usaddress.tag(addr_str): the result recorded for this string, or a new one
TagResults(addr_str) ==
  IF \E e \in memo : e[1] = addr_str
  THEN {e[2] : e \in {e \in memo : e[1] = addr_str}}
  ELSE TagChoices(addr_str)

\* an ambiguity test that looks at the address type only
IsAmbiguous_type_only(r) == r.type = "Ambiguous"

IsAmbiguous(r) ==
  r.type = "Ambiguous" \/ \E i \in DOMAIN r.m : r.m[i][1] \in AMBIGUOUS_LABELS

\* parse_address_string raised RepeatedLabelError or AmbiguousAddressError:
\* the first parse goes to the except clause of line 195, the second to
\* that of line 217
ParseFailed ==
  /\ retag' = <<>>
  /\ IF f.which = 1
     THEN /\ f' = [f EXCEPT !.error = TRUE]
          /\ pc' = "recover"
     ELSE /\ f' = [f EXCEPT !.error = TRUE, !.has_parsed = FALSE, !.parsed = <<>>]
          /\ pc' = "assemble"
  /\ UNCHANGED <<outcome, hist>>

\* parse_address_string returned parsed_addr to normalize_addr_str
ParseReturned(parsed_addr, fix) ==
  /\ retag' = <<>>
  /\ f' = [f EXCEPT !.has_parsed = TRUE, !.parsed = parsed_addr, !.fix = fix]
  /\ pc' = IF f.which = 1 THEN "parsed" ELSE "assemble"
  /\ UNCHANGED <<outcome, hist>>

\* handle_abnormal_occupancy calls parse_address_string again
ReTag(h) ==
  IF Len(retag) >= RecursionLimit
  THEN /\ outcome' = [kind |-> "RecursionError", rec |-> NoRec]
       /\ pc' = "ret"
       /\ retag' = <<>>
       /\ UNCHANGED <<f, hist>>
  ELSE /\ retag' = Append(retag, h.fix)
       /\ f' = [f EXCEPT !.tag_str = h.str]
       /\ hist' = [hist EXCEPT !.noop_retag = (h.str = f.tag_str)]
       /\ UNCHANGED <<pc, outcome>>

\* one invocation of parse_address_string, on f.tag_str
Tag ==
  /\ pc = "parse"
  /\ \E r \in TagResults(f.tag_str) :
       /\ memo' = memo \cup {<<f.tag_str, r>>}
       /\ IF r.exc = "RepeatedLabelError" \/ IsAmbiguous(r)
          THEN ParseFailed
          ELSE LET h == handle_abnormal_occupancy(r.m, f.tag_str)
               IN  IF h.kind = "retag"
                   THEN ReTag(h)
                   ELSE ParseReturned(Unwind(h.m, retag),
                                      IF retag # <<>> THEN "retag"
                                      ELSE IF h.m # r.m THEN "strip"
                                      ELSE "none")
  /\ UNCHANGED <<call, unit>>

\* one call of a recovery function, as hist.func_calls records it
FuncCall(fn, addr_str) == [fn |-> fn, arg |-> addr_str, ok |-> ApplyFunc(fn, addr_str).ok]
\* a recovery loop that hands its functions on to the invocation it makes
Recover_pass_funcs ==
  /\ pc = "recover"
  /\ LET enter == f.fi > 1 \/ ~Truthy(f.line2)
         hits == {i \in f.fi..Len(f.funcs) :
                    enter /\ ApplyFunc(f.funcs[i], f.addr_str).ok}
         calls(last) == [i \in 1..(last - f.fi + 1) |->
                          FuncCall(f.funcs[f.fi + i - 1], f.addr_str)]
     IN  IF hits # {}
         THEN LET k == CHOOSE i \in hits : \A j \in hits : i <= j
                  split == ApplyFunc(f.funcs[k], f.addr_str)
                  \* line2 and error are assigned before the call is made
                  waiting == [f EXCEPT !.fi = k + 1, !.line2 = split.line2,
                                       !.error = FALSE]
              IN  /\ f' = [Frame(split.line1, split.line2, f.city, f.state,
                                 f.zipcode, f.funcs, f.attempt, f.depth + 1)
                             EXCEPT !.caller = <<waiting>>]
                  /\ hist' = [hist EXCEPT !.func_calls = @ \o calls(k)]
                  /\ pc' = "str"
         ELSE /\ f' = f
              /\ hist' = [hist EXCEPT
                            !.func_calls = @ \o (IF enter THEN calls(Len(f.funcs))
                                                 ELSE <<>>)]
              /\ pc' = "assemble"
  /\ UNCHANGED <<call, retag, memo, outcome, unit>>

\* lines 195-207: the except clause of the first parse.  The loop over
\* addtl_funcs is entered when no line2 was given (f.fi = 1), and is resumed
\* (f.fi > 1) when the invocation it made raised ValueError.
Recover ==
  /\ pc = "recover"
  /\ LET enter == f.fi > 1 \/ ~Truthy(f.line2)
         hits == {i \in f.fi..Len(f.funcs) :
                    enter /\ ApplyFunc(f.funcs[i], f.addr_str).ok}
         calls(last) == [i \in 1..(last - f.fi + 1) |->
                          FuncCall(f.funcs[f.fi + i - 1], f.addr_str)]
     IN  IF hits # {}
         THEN LET k == CHOOSE i \in hits : \A j \in hits : i <= j
                  split == ApplyFunc(f.funcs[k], f.addr_str)
                  \* line2 and error are assigned before the call is made
                  waiting == [f EXCEPT !.fi = k + 1, !.line2 = split.line2,
                                       !.error = FALSE]
              IN  /\ f' = [Frame(split.line1, split.line2, f.city, f.state,
                                 f.zipcode, <<>>, f.attempt, f.depth + 1)
                             EXCEPT !.caller = <<waiting>>]
                  /\ hist' = [hist EXCEPT !.func_calls = @ \o calls(k)]
                  /\ pc' = "str"
         ELSE /\ f' = f
              /\ hist' = [hist EXCEPT
                            !.func_calls = @ \o (IF enter THEN calls(Len(f.funcs))
                                                 ELSE <<>>)]
              /\ pc' = "assemble"
  /\ UNCHANGED <<call, retag, memo, outcome, unit>>

\* lines 200-207: the invocation made for a split raised ValueError, which
\* the loop's `except ValueError` catches: the loop goes on
RecoverResume ==
  /\ pc = "ret"
  /\ f.caller # <<>>
  /\ outcome.kind = "ValueError"
  /\ f' = f.caller[1]
  /\ outcome' = NoOutcome
  /\ hist' = [hist EXCEPT !.last_conflict = FALSE, !.line1_parens = FALSE,
                          !.swallowed = TRUE]
  /\ pc' = "recover"
  /\ UNCHANGED <<call, retag, memo, unit>>

\* lines 209-219: a parse without StreetName is tried again on the full address
CheckStreetName ==
  /\ pc = "parsed"
  /\ IF f.parsed # <<>> /\ ~Truthy(Get(f.parsed, "StreetName"))
     THEN /\ f' = [f EXCEPT
                     !.tag_str = format_address_record(
                                   Rec(f.addr_str, f.line2, f.city, f.state, f.zipcode)),
                     !.which = 2]
          /\ pc' = "parse"
     ELSE /\ f' = f
          /\ pc' = "assemble"
  /\ UNCHANGED <<call, retag, memo, outcome, hist, unit>>

\* the caller-supplied value and the parsed value are both there and differ
Conflicts(parsed_addr, orig_val, val_label) ==
  LET a == post_clean_addr_str(orig_val)
      b == post_clean_addr_str(Get(parsed_addr, val_label))
  IN  a # None /\ b # None /\ a # b

\* lines 223-251, given what lines 223-225 and 236-238 computed: the first
\* exception in the order of the code, or the record
AssembleFields(fr, parsed_addr, zipcode, city, state, line1, conflict, in_parens) ==
  LET parens == validate_parens_groups_parsed(line1)
      line2 == post_clean_addr_str(
                 IF Truthy(fr.line2) THEN fr.line2
                 ELSE get_normalized_line_segment(parsed_addr,
                                                  LINE2_USADDRESS_LABELS))
      kind == IF zipcode.exc # "none" THEN zipcode.exc
              ELSE IF city.exc # "none" THEN city.exc
              ELSE IF state.exc # "none" THEN state.exc
              ELSE IF parens # "ok" THEN parens
              ELSE IF fr.error THEN "UnParseableAddressError"
              ELSE "record"
  IN  [kind |-> kind,
       rec |-> IF kind \in {"record", "UnParseableAddressError"}
               THEN Rec(line1, line2, city.val, normalize_state(state.val),
                        zipcode.val)
               ELSE NoRec,
       conflict |-> conflict, parens |-> in_parens]

\* lines 222-239: the normalized components are reconciled with the
\* caller's values and joined into lines
AssembleParsed(fr, nac) ==
  IF nac.exc # "none"
  THEN [kind |-> nac.exc, rec |-> NoRec, conflict |-> FALSE, parens |-> FALSE]
  ELSE AssembleFields(
         fr, nac.val,
         get_parsed_values(nac.val, fr.zipcode, "ZipCode"),
         get_parsed_values(nac.val, fr.city, "PlaceName"),
         get_parsed_values(nac.val, fr.state, "StateName"),
         get_normalized_line_segment(nac.val, LINE1_USADDRESS_LABELS),
         \/ Conflicts(nac.val, fr.zipcode, "ZipCode")
         \/ Conflicts(nac.val, fr.city, "PlaceName")
         \/ Conflicts(nac.val, fr.state, "StateName"),
         HasParensGroup(joined_line_elems(nac.val, LINE1_USADDRESS_LABELS)))

\* lines 221-251 as a function of the locals: what normalize_addr_str
\* returns or raises, whether get_parsed_values found a conflict, and
\* whether the line-1 components held a parenthesised group
AssembleResult(fr) ==
  IF fr.has_parsed /\ fr.parsed # <<>>
  THEN AssembleParsed(fr, normalize_address_components(fr.parsed))
  ELSE [kind |-> IF fr.error THEN "UnParseableAddressError" ELSE "record",
        rec |-> Rec(fr.addr_str, fr.line2, fr.city, fr.state, fr.zipcode),
        conflict |-> FALSE, parens |-> FALSE]

\* lines 221-251: normalize, reconcile, assemble, validate, return or raise
Assemble ==
  /\ pc = "assemble"
  /\ LET res == AssembleResult(f)
     IN  /\ outcome' = [kind |-> res.kind, rec |-> res.rec]
         /\ hist' = [hist EXCEPT !.conflict = @ \/ res.conflict,
                                 !.last_conflict = res.conflict,
                                 !.line1_parens = res.parens]
  /\ pc' = "ret"
  /\ UNCHANGED <<call, f, retag, memo, unit>>

\* normalize_addr_dict lines 295-302: the first attempt raised an
\* AddressNormalizationError; try again with all fields in the string
DictRetry ==
  /\ pc = "ret"
  /\ f.attempt = 1
  /\ outcome.kind \in NormalizationErrors
  /\ f' = Frame(get_addr_line_str(call.address, ADDRESS_KEYS, TRUE),
                None, call.address.city, call.address.state,
                \* zipcode is the validated postal code of the first attempt
                IF Truthy(call.address.postal_code)
                THEN validate_us_postal_code_format(call.address.postal_code).val
                ELSE None,
                call.funcs, 2, 0)
  /\ outcome' = NoOutcome
  /\ hist' = [hist EXCEPT !.last_conflict = FALSE, !.line1_parens = FALSE]
  /\ pc' = "str"
  /\ UNCHANGED <<call, retag, memo, unit>>

\* the result or the exception reaches the caller of normalize_address_record
Finish ==
  /\ pc = "ret"
  /\ ~(f.attempt = 1 /\ outcome.kind \in NormalizationErrors)
  /\ ~(f.caller # <<>> /\ outcome.kind = "ValueError")
  /\ pc' = "done"
  /\ UNCHANGED <<call, f, retag, memo, outcome, hist, unit>>

\* the caller passes the record it got back in as a field map, with
\* default arguments
CallAgain ==
  /\ pc = "done"
  /\ call.no = 1
  /\ outcome.kind = "record"
  /\ call' = [kind |-> "dict", address |-> outcome.rec, strict |-> TRUE,
              funcs |-> <<>>, no |-> 2]
  /\ hist' = [NoHist EXCEPT !.first = outcome.rec]
  /\ outcome' = NoOutcome
  /\ f' = NoFrame
  /\ pc' = "dict"
  /\ UNCHANGED <<retag, memo, unit>>

Next ==
  \/ \E address \in AddrStrings, funcs \in FuncLists, strict \in BOOLEAN :
       CallStr(address, funcs, strict)
  \/ \E address \in AddrDicts, funcs \in FuncLists, strict \in BOOLEAN :
       CallDict(address, funcs, strict)
  \/ DictValidate
  \/ PreClean
  \/ Tag
  \/ Recover
  \/ RecoverResume
  \/ CheckStreetName
  \/ Assemble
  \/ DictRetry
  \/ Finish
  \/ CallAgain

Spec == Init /\ [][Next]_vars

\* normalize_addr_str called directly
NextAddrStr ==
  \/ \E a \in StrArgs, funcs \in FuncLists :
       CallAddrStr(a[1], a[2], a[3], a[4], a[5], funcs)
  \/ PreClean
  \/ Tag
  \/ Recover
  \/ RecoverResume
  \/ CheckStreetName
  \/ Assemble
  \/ Finish

SpecAddrStr == Init /\ [][NextAddrStr]_vars

\* ------------------------------------------------------------------------
\* Single functions applied to drawn arguments
\* ------------------------------------------------------------------------

\* longest digit group and number of hyphen-separated groups of a postal code
MaxGroupLen == 9

MaxGroups == 3

DigitRun(n) == SubSeq(<<"9", "7", "2", "1", "9", "0", "0", "0", "1", "3", "5">>, 1, n)

\* postal codes: digit groups joined by hyphens, and a few with other characters
PostalArgs ==
  {JoinWith(<<"-">>, [i \in DOMAIN ls |-> DigitRun(ls[i])]) :
     ls \in UNION {[1..k -> 0..MaxGroupLen] : k \in 1..MaxGroups}}
  \cup {<<"9", "7", "2", "1", "a">>, <<"a">>, <<"9", "7", "2", "1", "9", " ">>,
        <<"9", "7", " ", "2", "1", "9">>, <<"(", "9", "7", "2", "1", "9", ")">>}

UnitOf(fn, arg) == [fn |-> fn, arg |-> arg, res |-> <<>>, done |-> FALSE]

InitPostal ==
  /\ Idle
  /\ unit \in {UnitOf("validate_us_postal_code_format", <<z>>) : z \in PostalArgs}

ApplyPostal ==
  /\ unit.fn = "validate_us_postal_code_format"
  /\ ~unit.done
  /\ unit' = [unit EXCEPT !.res = validate_us_postal_code_format(unit.arg[1]),
                          !.done = TRUE]
  /\ UNCHANGED <<pc, call, f, retag, memo, outcome, hist>>

NextPostal == ApplyPostal

SpecPostal == InitPostal /\ [][NextPostal]_vars

\* values of a component, parsed or supplied by the caller
OptValues ==
  {None, <<>>, <<"B", "o">>, <<"B", "O">>, <<"b", "o", " ">>, <<" ", "B", "o">>,
   <<"B", " ", "o">>, <<"B", " ", " ", "o">>, <<"(", "B", "o", ")">>,
   <<"M", "a", "i", "n">>, <<"9", "7", "0", "0", "9">>, <<";">>}

\* (parsed_addr, orig_val, val_label): the label is absent from parsed_addr
\* when the parsed value is None
ParsedValueArgs ==
  {<<(IF pv = None THEN <<<<"StateName", S_OR>>>>
      ELSE <<<<"StateName", S_OR>>, <<"PlaceName", pv>>>>), ov, "PlaceName">> :
     pv \in OptValues, ov \in OptValues}

InitParsedValues ==
  /\ Idle
  /\ unit \in {UnitOf("get_parsed_values", a) : a \in ParsedValueArgs}

ApplyParsedValues ==
  /\ unit.fn = "get_parsed_values"
  /\ ~unit.done
  /\ unit' = [unit EXCEPT
                !.res = get_parsed_values(unit.arg[1], unit.arg[2], unit.arg[3]),
                !.done = TRUE]
  /\ UNCHANGED <<pc, call, f, retag, memo, outcome, hist>>

NextParsedValues == ApplyParsedValues

SpecParsedValues == InitParsedValues /\ [][NextParsedValues]_vars

\* get_ordinal_indicator applied to one positive int
MaxOrdinal == 213

InitOrdinal ==
  /\ Idle
  /\ unit \in {UnitOf("get_ordinal_indicator", <<n>>) : n \in 1..MaxOrdinal}

ApplyOrdinal ==
  /\ unit.fn = "get_ordinal_indicator"
  /\ ~unit.done
  /\ unit' = [unit EXCEPT !.res = get_ordinal_indicator(Str(unit.arg[1])),
                          !.done = TRUE]
  /\ UNCHANGED <<pc, call, f, retag, memo, outcome, hist>>

NextOrdinal == ApplyOrdinal

SpecOrdinal == InitOrdinal /\ [][NextOrdinal]_vars

\* validate_address_components applied to one mapping: every field is
\* missing (None), empty or a value
ComponentArgs ==
  {<<Rec(l1, None, c, st, z), strict>> :
     l1 \in {None, <<>>, S_1_Main_St}, c \in {None, <<>>, S_Bo},
     st \in {None, <<>>, S_OR}, z \in {None, <<>>, Z_97009},
     strict \in BOOLEAN}

InitComponents ==
  /\ Idle
  /\ unit \in {UnitOf("validate_address_components", a) : a \in ComponentArgs}

ApplyComponents ==
  /\ unit.fn = "validate_address_components"
  /\ ~unit.done
  /\ unit' = [unit EXCEPT
                !.res = validate_address_components(unit.arg[1], unit.arg[2]),
                !.done = TRUE]
  /\ UNCHANGED <<pc, call, f, retag, memo, outcome, hist>>

NextComponents == ApplyComponents

SpecComponents == InitComponents /\ [][NextComponents]_vars

\* one normalization rule applied to one ParsedComponents mapping: an
\* optional directional, street name (a number or a word), street type,
\* occupancy type (known or unknown) and occupancy identifier
RuleArgs ==
  {<<<<"AddressNumber", <<"1">>>>>> \o a \o b \o c \o d \o e \o g :
     a \in {<<>>, <<<<"StreetNamePreDirectional", <<"N", "O", "R", "T", "H">>>>>>,
            <<<<"StreetNamePreDirectional", <<"N">>>>>>,
            <<<<"StreetNamePreDirectional",
                <<"S", "O", "U", "T", "H", "-", "W", "E", "S", "T">>>>>>},
     b \in {<<>>, <<<<"StreetName", <<"2">>>>>>, <<<<"StreetName", <<"0", "2">>>>>>,
            <<<<"StreetName", <<"M", "A", "I", "N">>>>>>},
     c \in {<<>>, <<<<"StreetNamePostType", <<"S", "T", "R", "E", "E", "T">>>>>>,
            <<<<"StreetNamePostType", <<"S", "T">>>>>>,
            <<<<"StreetNamePostType", <<"S", "T", "R", "O", "E", "T">>>>>>},
     d \in {<<>>, <<<<"OccupancyType", <<"S", "T", "E">>>>>>,
            <<<<"OccupancyType", <<"S", "U", "I", "T", "E">>>>>>,
            <<<<"OccupancyType", <<"R", "M">>>>>>},
     e \in {<<>>, <<<<"OccupancyIdentifier", <<"A">>>>>>,
            <<<<"OccupancyIdentifier", <<"#", "1">>>>>>},
     g \in {<<>>, <<<<"SecondStreetName", <<"3">>>>>>,
            <<<<"SecondStreetName", <<"3">>>>,
              <<"SecondStreetNamePostType", <<"A", "V", "E", "N", "U", "E">>>>>>}}

Rules ==
  {"normalize_numbered_streets", "normalize_directionals",
   "normalize_street_types", "normalize_occupancy_type"}

InitRules ==
  /\ Idle
  /\ unit \in {UnitOf(fn, a) : fn \in Rules, a \in RuleArgs}

ApplyNumberedStreets ==
  /\ unit.fn = "normalize_numbered_streets"
  /\ ~unit.done
  /\ unit' = [unit EXCEPT
                !.res = [exc |-> "none", val |-> normalize_numbered_streets(unit.arg)],
                !.done = TRUE]
  /\ UNCHANGED <<pc, call, f, retag, memo, outcome, hist>>

ApplyDirectionals ==
  /\ unit.fn = "normalize_directionals"
  /\ ~unit.done
  /\ unit' = [unit EXCEPT
                !.res = [exc |-> "none", val |-> normalize_directionals(unit.arg)],
                !.done = TRUE]
  /\ UNCHANGED <<pc, call, f, retag, memo, outcome, hist>>

ApplyStreetTypes ==
  /\ unit.fn = "normalize_street_types"
  /\ ~unit.done
  /\ unit' = [unit EXCEPT
                !.res = [exc |-> "none", val |-> normalize_street_types(unit.arg)],
                !.done = TRUE]
  /\ UNCHANGED <<pc, call, f, retag, memo, outcome, hist>>

ApplyOccupancyType ==
  /\ unit.fn = "normalize_occupancy_type"
  /\ ~unit.done
  /\ unit' = [unit EXCEPT
                !.res = normalize_occupancy_type(unit.arg),
                !.done = TRUE]
  /\ UNCHANGED <<pc, call, f, retag, memo, outcome, hist>>

NextRules ==
  \/ ApplyNumberedStreets
  \/ ApplyDirectionals
  \/ ApplyStreetTypes
  \/ ApplyOccupancyType

SpecRules == InitRules /\ [][NextRules]_vars

\* handle_abnormal_occupancy applied to one tagger result: a street type
\* (abnormal or not), an occupancy or subaddress type, and identifiers
\* under either label, each optional
AbnormalArgs ==
  {<<<<"AddressNumber", <<"1">>>>, <<"StreetName", <<"M", "A", "I", "N">>>>>>
     \o a \o b \o c \o d :
     a \in {<<>>, <<<<"StreetNamePostType", <<"U", "N">>>>>>,
            <<<<"StreetNamePostType", <<"S", "T">>>>>>},
     b \in {<<>>, <<<<"OccupancyType", <<"S", "T", "E">>>>>>,
            <<<<"SubaddressType", <<"B", "L", "D", "G">>>>>>},
     c \in {<<>>, <<<<"OccupancyIdentifier", <<"A">>>>>>,
            <<<<"OccupancyIdentifier", <<"U", "N", " ", "A">>>>>>},
     d \in {<<>>, <<<<"SubaddressIdentifier", <<"B">>>>>>,
            <<<<"SubaddressIdentifier", <<"U", "N", " ", "B">>>>>>}}

InitAbnormal ==
  /\ Idle
  /\ unit \in {UnitOf("handle_abnormal_occupancy", a) : a \in AbnormalArgs}

\* addr_str is the string the components were tagged from
ApplyAbnormal ==
  /\ unit.fn = "handle_abnormal_occupancy"
  /\ ~unit.done
  /\ unit' = [unit EXCEPT
                !.res = handle_abnormal_occupancy(
                          unit.arg,
                          JoinWith(<<" ">>, [i \in DOMAIN unit.arg |-> unit.arg[i][2]])),
                !.done = TRUE]
  /\ UNCHANGED <<pc, call, f, retag, memo, outcome, hist>>

NextAbnormal == ApplyAbnormal

SpecAbnormal == InitAbnormal /\ [][NextAbnormal]_vars

\* longest string, in pieces, the cleaning functions are applied to
MaxCleanLen == 3

\* the pieces: words (one of them the problem abbreviation 'ct'), a space,
\* a comma, parentheses, an en dash, a semicolon and an ampersand
CleanPieces ==
  {<<"a">>, <<"c", "t">>, <<" ">>, <<",">>, <<"(">>, <<")">>, <<"EN_DASH">>,
   <<";">>, <<"&">>}

CleanStrings ==
  UNION {{Flatten(ps) : ps \in [1..n -> CleanPieces]} : n \in 1..MaxCleanLen}

InitCleaning ==
  /\ Idle
  /\ unit \in {UnitOf("post_clean_addr_str", <<a>>) : a \in CleanStrings}
            \cup {UnitOf("pre_clean_addr_str", <<a, st>>) :
                    a \in CleanStrings, st \in {None, <<>>, S_OR, <<"C", "T">>}}

ApplyPostClean ==
  /\ unit.fn = "post_clean_addr_str"
  /\ ~unit.done
  /\ unit' = [unit EXCEPT !.res = post_clean_addr_str(unit.arg[1]),
                          !.done = TRUE]
  /\ UNCHANGED <<pc, call, f, retag, memo, outcome, hist>>

ApplyPreClean ==
  /\ unit.fn = "pre_clean_addr_str"
  /\ ~unit.done
  /\ unit' = [unit EXCEPT
                !.res = pre_clean_addr_str(unit.arg[1], unit.arg[2]),
                !.done = TRUE]
  /\ UNCHANGED <<pc, call, f, retag, memo, outcome, hist>>

NextCleaning ==
  \/ ApplyPostClean
  \/ ApplyPreClean

SpecCleaning == InitCleaning /\ [][NextCleaning]_vars

\* ------------------------------------------------------------------------
\* Properties
\* ------------------------------------------------------------------------

Returned == pc = "done" /\ outcome.kind = "record"

\* a re-tag recursion is only cut off by the interpreter when the re-tagged
\* string is the string that was just tagged, i.e. when it would never end
RecursionErrorIsLoop == outcome.kind = "RecursionError" => hist.noop_retag

\* C1: a call of normalize_address_record that does not return a record
\* raises one of the four AddressNormalizationError kinds; no ValueError,
\* TypeError, KeyError or RecursionError escapes.
C1_OnlyNormalizationErrors ==
  pc = "done" => outcome.kind \in {"record"} \cup NormalizationErrors

\* C2: a record returned by normalize_address_record has a non-null
\* address_line_1.
C2_Line1NonNull == Returned => outcome.rec.address_line_1 # None

\* a record assembled from parsed components was returned
C2_Witness == Returned /\ f.has_parsed /\ f.parsed # <<>>

\* uppercase, no leading or trailing whitespace, no run of whitespace
IsClean(v) ==
  /\ v = Upper(v)
  /\ v # <<>> => ~IsSpace(v[1]) /\ ~IsSpace(v[Len(v)])
  /\ \A i \in 1..(Len(v) - 1) : ~(IsSpace(v[i]) /\ IsSpace(v[i + 1]))

\* C3: every non-null field of a returned record is uppercase, trimmed and
\* free of doubled whitespace.
C3_FieldsClean ==
  Returned =>
    \A k \in Range(ADDRESS_KEYS) : outcome.rec[k] # None => IsClean(outcome.rec[k])

\* C4: a returned record meets the completeness rule of the strict flag in
\* force: postal_code, city and state all non-null in strict mode,
\* postal_code or city and state in lenient mode.
C4_Complete ==
  Returned =>
    IF call.strict
    THEN /\ outcome.rec.postal_code # None
         /\ outcome.rec.city # None
         /\ outcome.rec.state # None
    ELSE \/ outcome.rec.postal_code # None
         \/ (outcome.rec.city # None /\ outcome.rec.state # None)

IsZip5(z) == Len(z) = 5 /\ IsInt(z)

IsZipPlus4(z) ==
  /\ Len(z) = 10
  /\ z[6] = "-"
  /\ IsInt(SubSeq(z, 1, 5))
  /\ IsInt(SubSeq(z, 7, 10))

\* C5: the postal_code of a returned record is null, five digits, or five
\* digits, a hyphen and four digits.
C5_PostalFormat ==
  Returned =>
    \/ outcome.rec.postal_code = None
    \/ IsZip5(outcome.rec.postal_code)
    \/ IsZipPlus4(outcome.rec.postal_code)

\* C6: validate_us_postal_code_format returns a five-digit code and a
\* well-formed 5+4 code unchanged and raises AddressValidationError for
\* every other input.
C6_PostalLaw ==
  unit.done =>
    IF IsZip5(unit.arg[1]) \/ IsZipPlus4(unit.arg[1])
    THEN ~unit.res.err /\ unit.res.val = unit.arg[1]
    ELSE unit.res.err

\* C7 as stated: no record is returned from a call in which reconciliation
\* found a supplied city, state or postal code that differs from the parsed one.
C7_NoRecordAfterConflict == (pc = "done" /\ hist.conflict) => outcome.kind # "record"

\* C7 as amended: the invocation of normalize_addr_str in which the
\* conflict was found raises AmbiguousAddressError; when that invocation is
\* the last one of the call (the string path, the second attempt of the
\* field-map path) the call ends with that error.
C7_ConflictRaises ==
  (pc \in {"ret", "done"} /\ hist.last_conflict) =>
    outcome.kind = "AmbiguousAddressError"

\* a call ended in the invocation that found a conflict
C7_Witness ==
  pc = "done" /\ hist.last_conflict /\ outcome.kind = "AmbiguousAddressError"

\* C8: get_parsed_values post-cleans both values; it raises
\* AmbiguousAddressError when both are non-null and differ, returns the
\* value when they are equal, the non-null one when only one is non-null,
\* and None when both are null.
C8_GetParsedValues ==
  unit.done =>
    LET parsed == post_clean_addr_str(Get(unit.arg[1], unit.arg[3]))
        orig == post_clean_addr_str(unit.arg[2])
    IN  IF parsed # None /\ orig # None
        THEN IF parsed # orig
             THEN unit.res.exc = "AmbiguousAddressError"
             ELSE unit.res.exc = "none" /\ unit.res.val = parsed
        ELSE IF parsed # None
        THEN unit.res.exc = "none" /\ unit.res.val = parsed
        ELSE IF orig # None
        THEN unit.res.exc = "none" /\ unit.res.val = orig
        ELSE unit.res.exc = "none" /\ unit.res.val = None

\* both values were there, differed only before cleaning, and the cleaned
\* value was returned
C8_Witness ==
  /\ unit.done
  /\ unit.arg[2] # None
  /\ HasKey(unit.arg[1], unit.arg[3])
  /\ Get(unit.arg[1], unit.arg[3]) # unit.arg[2]
  /\ unit.res.exc = "none"
  /\ unit.res.val = <<"B", "O">>

\* C9: normalizing a returned record again, passed as a field map with
\* default arguments, returns an equal record.
C9_Idempotent ==
  (pc = "done" /\ call.no = 2) =>
    outcome.kind = "record" /\ outcome.rec = hist.first

\* C10: the re-tag recursion of handle_abnormal_occupancy is capped and its
\* exhaustion surfaces as UnParseableAddressError: the call never ends in
\* the interpreter's RecursionError.
C10_RecursionCapped ==
  pc \in {"ret", "done"} => outcome.kind # "RecursionError"

\* the functions called so far are the first ones of the caller's list, in
\* its order, each called on the pre-cleaned address string
CalledInOrder ==
  /\ Len(hist.func_calls) <= Len(call.funcs)
  /\ \A i \in DOMAIN hist.func_calls :
       /\ hist.func_calls[i].fn = call.funcs[i]
       /\ hist.func_calls[i].arg =
            pre_clean_addr_str(call.address.address_line_1,
                               normalize_state(call.address.state))

\* a function that returned a split is the last one called, and the call's
\* outcome is that of the invocation made for the split
FirstSplitEnds ==
  \A i \in DOMAIN hist.func_calls :
    hist.func_calls[i].ok => i = Len(hist.func_calls) /\ f.caller # <<>>

\* C11: when the first tagging attempt fails with no line 2 and with
\* recovery functions, the functions are called in the caller's order on the
\* pre-cleaned string, each at most once; the first one that returns a split
\* ends the search and the outcome of the invocation made for the split is
\* the outcome of the call; with a line 2 or without functions no function
\* is called.
C11_RecoveryOrder ==
  (pc = "done" /\ call.kind = "addr_str") =>
    /\ CalledInOrder
    /\ FirstSplitEnds
    /\ (Truthy(call.address.address_line_2) \/ call.funcs = <<>>)
         => hist.func_calls = <<>>

\* C12: when normalize_addr_str raises UnParseableAddressError, the error
\* carries a record whose address_line_1 is the address string passed to the
\* call and whose other fields are exactly the caller-supplied values.
C12_PartialRecord ==
  (pc = "done" /\ call.kind = "addr_str"
     /\ outcome.kind = "UnParseableAddressError") =>
    outcome.rec = call.address

\* C13: when the normalized components that make up address line 1 contain
\* a parenthesised group, the normalize_addr_str invocation raises
\* AmbiguousAddressError and returns no record.
C13_ParensInLine1Raises ==
  (pc = "ret" /\ hist.line1_parens) =>
    outcome.kind = "AmbiguousAddressError"

\* the field map of a normalize_addr_dict call fails the completeness
\* check or the postal code format check
FailsValidation ==
  /\ call.kind = "dict"
  /\ \/ ~validate_address_components(call.address, call.strict)
     \/ /\ Truthy(call.address.postal_code)
        /\ validate_us_postal_code_format(call.address.postal_code).err

\* C14: normalize_addr_dict validates completeness and postal code format
\* before the first tagger call: a field map that fails either check makes
\* the call raise IncompleteAddressError or AddressValidationError, and such
\* an error ends the call at once, with no normalize_addr_str invocation, no
\* tagger call, no recovery function call and no retry.
C14_ValidatedFirst ==
  /\ (FailsValidation /\ pc \notin {"idle", "dict"}) =>
       outcome.kind \in {"IncompleteAddressError", "AddressValidationError"}
  /\ outcome.kind \in {"IncompleteAddressError", "AddressValidationError"} =>
       /\ pc = "done"
       /\ f = NoFrame
       /\ hist.func_calls = <<>>
       /\ call.no = 1 => memo = {}

\* a complete field map with a malformed postal code was rejected
C14_Witness ==
  /\ pc = "done"
  /\ call.kind = "dict"
  /\ validate_address_components(call.address, call.strict)
  /\ outcome.kind = "AddressValidationError"

\* C15: for every positive integer n, get_ordinal_indicator(n) is 'st' when
\* n mod 10 = 1 and n mod 100 # 11, 'nd' when n mod 10 = 2 and
\* n mod 100 # 12, 'rd' when n mod 10 = 3 and n mod 100 # 13, and 'th'
\* otherwise.
C15_OrdinalLaw ==
  (unit.fn = "get_ordinal_indicator" /\ unit.done) =>
    LET n == unit.arg[1]
    IN  unit.res = IF n % 10 = 1 /\ n % 100 # 11 THEN <<"s", "t">>
                   ELSE IF n % 10 = 2 /\ n % 100 # 12 THEN <<"n", "d">>
                   ELSE IF n % 10 = 3 /\ n % 100 # 13 THEN <<"r", "d">>
                   ELSE <<"t", "h">>

\* the indicator of 112 was computed: a number of three digits ending in 12
C15_Witness ==
  /\ unit.fn = "get_ordinal_indicator"
  /\ unit.done
  /\ unit.arg[1] = 112
  /\ unit.res = <<"t", "h">>

\* a field of a mapping is present: neither missing (None) nor empty
Present(v) == v # None /\ v # <<>>

\* C16: validate_address_components raises IncompleteAddressError when
\* address_line_1 is missing or empty; otherwise in strict mode it raises
\* unless postal_code, city and state are all present, and in lenient mode
\* unless postal_code is present or both city and state are; in every other
\* case it returns the mapping (res is TRUE for a return, FALSE for the
\* error).
C16_CompletenessLaw ==
  (unit.fn = "validate_address_components" /\ unit.done) =>
    LET a == unit.arg[1]
        strict == unit.arg[2]
        raises ==
          \/ ~Present(a.address_line_1)
          \/ strict /\ ~(Present(a.postal_code) /\ Present(a.city)
                          /\ Present(a.state))
          \/ ~strict /\ ~(Present(a.postal_code)
                           \/ (Present(a.city) /\ Present(a.state)))
    IN  unit.res = ~raises

\* a mapping with line 1 and a postal code but an empty city was rejected
\* in strict mode
C16_Witness ==
  /\ unit.fn = "validate_address_components"
  /\ unit.done
  /\ unit.arg[2]
  /\ Present(unit.arg[1].address_line_1)
  /\ Present(unit.arg[1].postal_code)
  /\ unit.arg[1].city = <<>>
  /\ unit.res = FALSE

\* the tagger result parse_address_string works on when it is invoked on
\* addr_str: the type is 'Ambiguous' or a component has one of the labels
\* Recipient, USPSBoxType, USPSBoxID, USPSBoxGroupType, USPSBoxGroupID,
\* NotAddress
TaggedAmbiguous(results, addr_str) ==
  \E e \in results :
    /\ e[1] = addr_str
    /\ e[2].exc = "none"
    /\ \/ e[2].type = "Ambiguous"
       \/ \E i \in DOMAIN e[2].m :
            e[2].m[i][1] \in {"Recipient", "USPSBoxType", "USPSBoxID",
                              "USPSBoxGroupType", "USPSBoxGroupID",
                              "NotAddress"}

\* C17: every invocation of parse_address_string whose tagger result has
\* the type 'Ambiguous' or a component labelled in the AMBIGUOUS group
\* raises AmbiguousAddressError and returns no components; an invocation
\* made for a re-tag on the abnormal-occupancy path does so too, and the
\* error ends the parse that made the re-tag.
C17_AmbiguousRaises ==
  [][(pc = "parse" /\ TaggedAmbiguous(memo', f.tag_str)) =>
       /\ f'.error
       /\ ~f'.has_parsed
       /\ retag' = <<>>
       /\ pc' \in {"recover", "assemble"}]_vars

\* a re-tag on the abnormal-occupancy path returned a NotAddress component
\* in an address whose type is not 'Ambiguous', and the parse failed
C17_Witness ==
  /\ pc \in {"recover", "assemble"}
  /\ f.error
  /\ f.tag_str # f.addr_str
  /\ f.which = 1
  /\ \E e \in memo :
       /\ e[1] = f.tag_str
       /\ e[2].type # "Ambiguous"
       /\ \E i \in DOMAIN e[2].m : e[2].m[i][1] = "NotAddress"

\* the labels a normalization rule works on
RuleLabels(fn) ==
  IF fn = "normalize_numbered_streets"
  THEN {"StreetName", "SecondStreetName"}
  ELSE IF fn = "normalize_directionals" THEN DirectionalLabels
  ELSE IF fn = "normalize_street_types" THEN StreetTypeLabels
  ELSE {"OccupancyType", "OccupancyIdentifier"}

\* C18: each of the four normalization rules completes without raising for
\* every ParsedComponents mapping, a mapping with an OccupancyType and no
\* OccupancyIdentifier included, and returns the mapping unchanged when none
\* of the labels it works on is present.
C18_RulesTotal ==
  (unit.fn \in Rules /\ unit.done) =>
    /\ unit.res.exc = "none"
    /\ (\A i \in DOMAIN unit.arg : unit.arg[i][1] \notin RuleLabels(unit.fn))
         => unit.res.val = unit.arg

\* parse_address_string has just returned components that
\* handle_abnormal_occupancy corrected
Corrected == pc = "parsed" /\ f.fix # "none"

\* the components end with an OccupancyType entry holding an abnormal
\* occupancy abbreviation, followed by the OccupancyIdentifier entry
EndsWithOccupancy(m) ==
  /\ Len(m) >= 2
  /\ m[Len(m) - 1][1] = "OccupancyType"
  /\ m[Len(m) - 1][2] \in ABNORMAL_OCCUPANCY_ABBRVS
  /\ m[Len(m)][1] = "OccupancyIdentifier"

\* C19 as stated: after a correction by either strategy, StreetNamePostType
\* is absent from the result and an OccupancyType entry holding the
\* abbreviation comes immediately before the occupancy identifier entry.
C19_StreetTypeReplaced ==
  Corrected =>
    /\ ~HasKey(f.parsed, "StreetNamePostType")
    /\ \E i \in 1..(Len(f.parsed) - 1) :
         /\ f.parsed[i][1] = "OccupancyType"
         /\ f.parsed[i][2] \in ABNORMAL_OCCUPANCY_ABBRVS
         /\ f.parsed[i + 1][1] = "OccupancyIdentifier"

\* C19: after a correction by stripping, the tagged components keep their
\* StreetNamePostType entry, lose the identifier entry and end with an
\* OccupancyType entry holding the abbreviation followed by the identifier
\* entry holding the identifier without the abbreviation; after a correction
\* by re-tagging, the result is the re-tagged components with OccupancyType
\* set to the abbreviation and OccupancyIdentifier set, both appended in
\* that order when the re-tag returned neither label, and it has a
\* StreetNamePostType entry only if the re-tag returned one.
C19_OccupancyAppended ==
  Corrected =>
    \E e \in memo :
      /\ e[1] = f.tag_str
      /\ Get(f.parsed, "OccupancyType") \in ABNORMAL_OCCUPANCY_ABBRVS
      /\ HasKey(f.parsed, "OccupancyIdentifier")
      /\ f.fix = "strip" =>
           /\ Get(f.parsed, "StreetNamePostType") = Get(f.parsed, "OccupancyType")
           /\ EndsWithOccupancy(f.parsed)
           /\ SubSeq(f.parsed, 1, Len(f.parsed) - 2)
                = Del(e[2].m, "OccupancyIdentifier")
           /\ f.parsed[Len(f.parsed)][2]
                = Strip(Replace(Get(e[2].m, "OccupancyIdentifier"),
                                Get(e[2].m, "StreetNamePostType"), <<>>))
      /\ f.fix = "retag" =>
           /\ HasKey(f.parsed, "StreetNamePostType")
                <=> HasKey(e[2].m, "StreetNamePostType")
           /\ (~HasKey(e[2].m, "OccupancyType")
                 /\ ~HasKey(e[2].m, "OccupancyIdentifier")) =>
                /\ EndsWithOccupancy(f.parsed)
                /\ SubSeq(f.parsed, 1, Len(f.parsed) - 2) = e[2].m

\* a correction by stripping was applied: the street type is still there
C19_Witness ==
  /\ Corrected
  /\ f.fix = "strip"
  /\ HasKey(f.parsed, "StreetNamePostType")
  /\ EndsWithOccupancy(f.parsed)

\* C20: handle_abnormal_occupancy applies the correction (it changes the
\* components or re-tags) exactly when the StreetNamePostType value is an
\* abnormal-occupancy abbreviation, neither OccupancyType nor SubaddressType
\* is present, and an identifier is present under OccupancyIdentifier or
\* SubaddressIdentifier; otherwise it returns the components unchanged.
C20_AppliedExactly ==
  (unit.fn = "handle_abnormal_occupancy" /\ unit.done) =>
    LET applied == unit.res.kind = "retag" \/ unit.res.m # unit.arg
        detected ==
          /\ Get(unit.arg, "StreetNamePostType") \in ABNORMAL_OCCUPANCY_ABBRVS
          /\ ~HasKey(unit.arg, "OccupancyType")
          /\ ~HasKey(unit.arg, "SubaddressType")
          /\ \/ HasKey(unit.arg, "OccupancyIdentifier")
             \/ HasKey(unit.arg, "SubaddressIdentifier")
    IN  applied <=> detected

\* C21: when the first parse of a normalize_addr_str invocation has no
\* StreetName component and the comma-joined fields were tagged once more,
\* the invocation returns a record only if the second parse has a StreetName
\* component, and otherwise ends with an error.
C21_RecordNeedsStreetName ==
  (pc = "ret" /\ f.which = 2 /\ outcome.kind = "record") =>
    (f.has_parsed /\ Truthy(Get(f.parsed, "StreetName")))

\* C22: normalize_occupancy_type keeps an OccupancyType that is already an
\* abbreviation of the table and replaces one that is a key of the table by
\* its abbreviation; with no OccupancyType and an OccupancyIdentifier that
\* does not start with '#' the type is 'UNIT', and with an identifier that
\* starts with '#' there is no type; the resulting OccupancyType entry is
\* immediately before the OccupancyIdentifier entry and the other entries
\* keep their order.
C22_OccupancyLaw ==
  (unit.fn = "normalize_occupancy_type" /\ unit.done) =>
    LET m == unit.arg
        type == Get(m, "OccupancyType")
        id == Get(m, "OccupancyIdentifier")
        res == unit.res.val
    IN  /\ unit.res.exc = "none"
        /\ type \in Values(OCCUPANCY_TYPE_ABBREVIATIONS) =>
             Get(res, "OccupancyType") = type
        /\ (type \in Keys(OCCUPANCY_TYPE_ABBREVIATIONS)
              /\ type \notin Values(OCCUPANCY_TYPE_ABBREVIATIONS)) =>
             Get(res, "OccupancyType") = Lookup(OCCUPANCY_TYPE_ABBREVIATIONS, type)
        /\ (~HasKey(m, "OccupancyType") /\ HasKey(m, "OccupancyIdentifier")) =>
             IF Head(id) = "#"
             THEN ~HasKey(res, "OccupancyType")
             ELSE Get(res, "OccupancyType") = <<"U", "N", "I", "T">>
        /\ \A i \in DOMAIN res :
             res[i][1] = "OccupancyType" =>
               (i < Len(res) /\ res[i + 1][1] = "OccupancyIdentifier")
        /\ Del(res, "OccupancyType") = Del(m, "OccupancyType")

\* C23: the result of post_clean_addr_str on a non-empty string has no
\* character of the stripped categories other than '#', '&', '-', '.' and
\* '/', so no comma and no parenthesis; a dash character in it is the plain
\* hyphen, its whitespace runs are single spaces and it is uppercase.
C23_PostCleanResult ==
  (unit.fn = "post_clean_addr_str" /\ unit.done) =>
    LET res == unit.res
    IN  /\ \A i \in DOMAIN res :
             /\ CatStartsWith(res[i], STRIP_CHAR_CATS) =>
                  res[i] \in {"#", "&", "-", ".", "/"}
             /\ res[i] \notin {",", "(", ")"}
             /\ CatStartsWith(res[i], {"Pd"}) => res[i] = "-"
        /\ res = JoinWith(<<" ">>, Split(res))
        /\ res = Upper(res)

\* C26: pre_clean_addr_str expands the problem street-type abbreviations
\* exactly when a state is supplied and is not 'CT': then every
\* whitespace-delimited token of the cleaned string that is a key of the
\* table is replaced by its full word, and with state 'CT' or no state no
\* token is expanded.
C26_ExpandsProblemTypes ==
  (unit.fn = "pre_clean_addr_str" /\ unit.done) =>
    LET state == unit.arg[2]
        cleaned == clean_upper(unit.arg[1], EXCLUDE_ALL, STRIP_CHAR_CATS, FALSE)
        tokens == Split(cleaned)
    IN  unit.res =
          IF Truthy(state) /\ state # <<"C", "T">>
          THEN JoinWith(<<" ">>,
                 [i \in DOMAIN tokens |->
                    IF tokens[i] \in Keys(PROBLEM_ST_TYPE_ABBRVS)
                    THEN Lookup(PROBLEM_ST_TYPE_ABBRVS, tokens[i])
                    ELSE tokens[i]])
          ELSE cleaned

\* C24: when a normalize_addr_str invocation that was given a non-empty
\* line2, by the caller or by a recovery split, returns a record, the
\* record's address_line_2 is the post-cleaned line2.
C24_Line2Kept ==
  (pc = "ret" /\ outcome.kind = "record" /\ Truthy(f.line2)) =>
    outcome.rec.address_line_2 = post_clean_addr_str(f.line2)

\* C25: a call of normalize_addr_str re-enters itself through the recovery
\* path to a nesting depth no greater than the number of recovery functions
\* the caller supplied, and never with no recovery function.
C25_DepthBounded ==
  call.kind = "addr_str" =>
    /\ f.depth <= Len(call.funcs)
    /\ call.funcs = <<>> => f.caller = <<>>

\* an invocation made for a split by the only recovery function has
\* returned or raised
C25_Witness ==
  /\ call.kind = "addr_str"
  /\ pc = "ret"
  /\ f.depth = 1
  /\ f.caller # <<>>
  /\ Len(call.funcs) = 1

\* C27: normalize_numbered_streets changes the StreetName or SecondStreetName
\* value only when the value parses as an integer and the post-type label of
\* the same street slot is present; the new value is then the original value
\* followed by the ordinal suffix of that integer; in every other case the
\* value, and everything else in the mapping, is returned unchanged.
PostTypeTag(tag) ==
  IF tag = "StreetName" THEN "StreetNamePostType" ELSE "SecondStreetNamePostType"

C27_NumberedLaw ==
  (unit.done /\ unit.fn = "normalize_numbered_streets") =>
    LET m == unit.arg
        r == unit.res.val
    IN  /\ unit.res.exc = "none"
        /\ Len(r) = Len(m)
        /\ \A i \in DOMAIN m :
             /\ r[i][1] = m[i][1]
             /\ r[i][2] =
                  IF /\ m[i][1] \in {"StreetName", "SecondStreetName"}
                     /\ HasKey(m, PostTypeTag(m[i][1]))
                     /\ IsIntLiteral(m[i][2])
                  THEN m[i][2] \o get_ordinal_indicator(CardinalStr(m[i][2]))
                  ELSE m[i][2]

\* C28: normalize_directionals and normalize_street_types never add, remove
\* or reorder labels and change only values under their own labels (the
\* Directional labels; the Street...Type labels); such a value is replaced by
\* the table's abbreviation exactly when its lookup form is a key of the
\* table, and a value that is already an abbreviation or is unrecognized
\* stays exactly as it was.
C28_FrameLaw ==
  (unit.done /\ unit.fn \in {"normalize_directionals", "normalize_street_types"}) =>
    LET m == unit.arg
        r == unit.res.val
        dirs == unit.fn = "normalize_directionals"
        own == IF dirs THEN DirectionalLabels ELSE StreetTypeLabels
        table == IF dirs THEN DIRECTIONAL_REPLACEMENTS ELSE STREET_TYPE_ABBREVIATIONS
        abbrs == {table[k][2] : k \in DOMAIN table}
    IN  /\ unit.res.exc = "none"
        /\ Len(r) = Len(m)
        /\ \A i \in DOMAIN m :
             LET v == m[i][2]
                 form == IF dirs THEN clean_upper(v, {}, STRIP_ALL_CATS, TRUE) ELSE v
             IN  /\ r[i][1] = m[i][1]
                 /\ m[i][1] \notin own => r[i][2] = v
                 /\ r[i][2] # v => (form \in Keys(table) /\ r[i][2] = Lookup(table, form))
                 /\ (m[i][1] \in own /\ form \in Keys(table)) => r[i][2] = Lookup(table, form)
                 /\ (v \in abbrs \/ form \notin Keys(table)) => r[i][2] = v

C28_Witness ==
  /\ unit.done
  /\ unit.fn = "normalize_street_types"
  /\ Get(unit.arg, "StreetNamePostType") = <<"S", "T", "R", "O", "E", "T">>
  /\ Get(unit.res.val, "StreetNamePostType") = <<"S", "T", "R", "O", "E", "T">>
  /\ Get(unit.arg, "SecondStreetNamePostType") = <<"A", "V", "E", "N", "U", "E">>
  /\ Get(unit.res.val, "SecondStreetNamePostType") = <<"A", "V", "E">>
  /\ Get(unit.res.val, "OccupancyType") = <<"S", "U", "I", "T", "E">>

\* C29: no data is lost by label: on a successful normalize_addr_str call
\* without a line 2, every normalized component whose label is not in the
\* AMBIGUOUS group has a label of the line-1, line-2 or last-line group, and
\* its value (a state in its abbreviated form) is part of address_line_1,
\* address_line_2, city, state or postal_code of the returned record.
C29_NoLabelDropped ==
  (/\ call.kind = "addr_str"
   /\ pc = "ret"
   /\ outcome.kind = "record"
   /\ f.has_parsed
   /\ f.parsed # <<>>
   /\ ~Truthy(f.line2)) =>
    LET comps == normalize_address_components(f.parsed).val
        rec == outcome.rec
    IN  \A i \in DOMAIN comps :
          comps[i][1] \notin AMBIGUOUS_LABELS =>
            /\ comps[i][1] \in LINE1_USADDRESS_LABELS \cup LINE2_USADDRESS_LABELS
                                 \cup LAST_LINE_LABELS
            /\ \E k \in {"address_line_1", "address_line_2", "city", "state",
                          "postal_code"} :
                 /\ Truthy(rec[k])
                 /\ Contains(rec[k],
                             IF comps[i][1] = "StateName"
                             THEN normalize_state(post_clean_addr_str(comps[i][2]))
                             ELSE post_clean_addr_str(comps[i][2]))

\* C30: in normalize_addr_str the state is reconciled before it is
\* abbreviated: when the post-cleaned supplied state and the post-cleaned
\* parsed StateName are both present and spelled differently (supplied
\* 'Oregon', parsed 'OR') the invocation raises AmbiguousAddressError, and a
\* returned record holds normalize_state of the one reconciled spelling.
C30_ReconciledFirst ==
  [][(/\ pc = "assemble"
      /\ f.has_parsed
      /\ f.parsed # <<>>
      /\ normalize_address_components(f.parsed).exc = "none") =>
       LET comps == normalize_address_components(f.parsed).val
           supplied == post_clean_addr_str(f.state)
           from_parse == post_clean_addr_str(Get(comps, "StateName"))
       IN  /\ (supplied # None /\ from_parse # None /\ supplied # from_parse) =>
                outcome'.kind = "AmbiguousAddressError"
           /\ outcome'.kind = "record" =>
                outcome'.rec.state =
                  normalize_state(IF supplied # None THEN supplied ELSE from_parse)]_vars

C30_Witness ==
  /\ pc = "ret"
  /\ hist.last_conflict
  /\ f.has_parsed
  /\ f.state = S_Oregon
  /\ Get(f.parsed, "StateName") = S_OR
  /\ ~Conflicts(f.parsed, f.zipcode, "ZipCode")
  /\ ~Conflicts(f.parsed, f.city, "PlaceName")
  /\ outcome.kind = "AmbiguousAddressError"

====
